---- MODULE Spec2Model ----
(***************************************************************************)
(* A model of firevault's struct-tag validator (src/validator.go,          *)
(* src/built_in.go) together with the option parsing of the collection     *)
(* methods.  A call of validate is one action: it walks the caller's       *)
(* record, dispatches the rule tokens of every tagged field and either     *)
(* returns the output document or an error; the record is mutated in       *)
(* place by transformations.                                               *)
(*                                                                         *)
(* Text: a Go string is a TLA+ string, concatenated with \o.  A raw tag    *)
(* is a sequence of atoms in which every ",", "=" and " " is an atom of    *)
(* its own and no other atom holds one of those characters, so that        *)
(* strings.Split, strings.TrimSpace, strings.Cut and strings.HasPrefix     *)
(* are computed on it.                                                     *)
(***************************************************************************)
EXTENDS Integers, Sequences, FiniteSets, TLC

VARIABLES validations, transformations, data, last, built, calls

vars == <<validations, transformations, data, last, built, calls>>

-----------------------------------------------------------------------------
(* Text helpers *)

RECURSIVE Join(_)
Join(atoms) == IF atoms = <<>> THEN "" ELSE Head(atoms) \o Join(Tail(atoms))

RECURSIVE IndexOf(_, _, _)
IndexOf(s, a, i) ==
    IF i > Len(s) THEN 0
    ELSE IF s[i] = a THEN i
    ELSE IndexOf(s, a, i + 1)

Contains(s, e) == \E i \in 1..Len(s) : s[i] = e

RECURSIVE Split(_, _)
Split(atoms, sep) ==
    LET i == IndexOf(atoms, sep, 1)
    IN IF i = 0 THEN <<atoms>>
       ELSE <<SubSeq(atoms, 1, i - 1)>> \o Split(SubSeq(atoms, i + 1, Len(atoms)), sep)

RECURSIVE TrimLeft(_)
TrimLeft(atoms) ==
    IF atoms # <<>> /\ Head(atoms) = " " THEN TrimLeft(Tail(atoms)) ELSE atoms

RECURSIVE TrimRight(_)
TrimRight(atoms) ==
    IF atoms # <<>> /\ atoms[Len(atoms)] = " "
    THEN TrimRight(SubSeq(atoms, 1, Len(atoms) - 1))
    ELSE atoms

TrimSpace(atoms) == TrimRight(TrimLeft(atoms))

Reverse(s) == [i \in 1..Len(s) |-> s[Len(s) + 1 - i]]

-----------------------------------------------------------------------------
(* reflect.Value: a record with its kind.  A nil pointer, slice or map     *)
(* keeps its element type.                                                 *)

S(s) == [kind |-> "string", s |-> s]
I(n) == [kind |-> "int", n |-> n]
U(n) == [kind |-> "uint", n |-> n]
B(b) == [kind |-> "bool", b |-> b]
PtrTo(v) == [kind |-> "ptr", isNil |-> FALSE, elem |-> v]
NilPtr(zero) == [kind |-> "ptr", isNil |-> TRUE, elem |-> zero]
SliceOf(et, elems) == [kind |-> "slice", isNil |-> FALSE, et |-> et, elems |-> elems]
NilSlice(et) == [kind |-> "slice", isNil |-> TRUE, et |-> et, elems |-> <<>>]
ArrayOf(et, elems) == [kind |-> "array", et |-> et, elems |-> elems]
MapOf(et, keys, vals) ==
    [kind |-> "map", isNil |-> FALSE, et |-> et, keys |-> keys, vals |-> vals]
NilMap(et) == [kind |-> "map", isNil |-> TRUE, et |-> et, keys |-> <<>>, vals |-> <<>>]
Field(name, tag, val) == [name |-> name, tag |-> tag, val |-> val]
Struct(typ, fields) == [kind |-> "struct", typ |-> typ, fields |-> fields]
Time(t) == [kind |-> "struct", typ |-> "time.Time", fields |-> <<>>, t |-> t]
Chan == [kind |-> "chan", isNil |-> TRUE]
(* make(chan int), a nil func and a func *)
MadeChan == [kind |-> "chan", isNil |-> FALSE]
NilFunc == [kind |-> "func", isNil |-> TRUE]
Func == [kind |-> "func", isNil |-> FALSE]
(* reflect.ValueOf(nil): the zero Value, of kind Invalid *)
Nil == [kind |-> "invalid"]

RECURSIVE TypeOf(_)
TypeOf(v) ==
    CASE v.kind = "ptr" -> "*" \o TypeOf(v.elem)
      [] v.kind = "slice" -> "[]" \o v.et
      [] v.kind = "array" ->
            "[" \o (CASE Len(v.elems) = 1 -> "1" [] Len(v.elems) = 2 -> "2"
                       [] Len(v.elems) = 3 -> "3" [] OTHER -> "4") \o "]" \o v.et
      [] v.kind = "map" -> "map[string]" \o v.et
      [] v.kind = "struct" -> v.typ
      [] OTHER -> v.kind

RECURSIVE IsZero(_)
IsZero(v) ==
    CASE v.kind = "string" -> v.s = ""
      [] v.kind = "int" -> v.n = 0
      [] v.kind = "uint" -> v.n = 0
      [] v.kind = "bool" -> ~v.b
      [] v.kind = "array" -> \A i \in 1..Len(v.elems) : IsZero(v.elems[i])
      [] v.kind = "struct" ->
            IF v.typ = "time.Time" THEN v.t = 0
            ELSE \A i \in 1..Len(v.fields) : IsZero(v.fields[i].val)
      [] OTHER -> v.isNil

-----------------------------------------------------------------------------
(* src/built_in.go *)

isSupported(fieldValue) == fieldValue.kind \notin {"invalid", "chan", "func"}

(* hasValue without the zero check of the kinds that are never nil *)
hasValueNilOnly(fieldValue) ==
    IF fieldValue.kind \in {"slice", "map", "ptr", "interface"}
    THEN ~fieldValue.isNil
    ELSE fieldValue.kind # "invalid"

hasValue(fieldValue) ==
    IF fieldValue.kind \in {"slice", "map", "ptr", "interface"}
    THEN ~fieldValue.isNil
    ELSE fieldValue.kind # "invalid" /\ ~IsZero(fieldValue)

(* Errors: none, a plain error, or a fieldError (src/unnamed/part_003). *)
NoErr == [type |-> "none"]
PlainError(msg) == [type |-> "error", msg |-> msg]

(* strconv.ParseInt(param, 0, 64) on the numerals the tags use; any other  *)
(* text is a syntax error.  The parameter is the atoms after the "=".      *)
IntLiterals ==
    [t \in {"0", "1", "2", "3", "5", "6", "18", "50", "120"} |->
        CASE t = "0" -> 0 [] t = "1" -> 1 [] t = "2" -> 2 [] t = "3" -> 3
          [] t = "5" -> 5 [] t = "6" -> 6 [] t = "18" -> 18 [] t = "50" -> 50
          [] t = "120" -> 120]

asInt(param) ==
    IF Len(param) = 1 /\ param[1] \in DOMAIN IntLiterals
    THEN [i |-> IntLiterals[param[1]], err |-> NoErr]
    ELSE [i |-> 0,
          err |-> PlainError("firevault: strconv.ParseInt: parsing \"" \o Join(param)
                             \o "\": invalid syntax")]

(* strconv.ParseUint(param, 0, 64) on the same numerals *)
asUint(param) ==
    IF Len(param) = 1 /\ param[1] \in DOMAIN IntLiterals
    THEN [u |-> IntLiterals[param[1]], err |-> NoErr]
    ELSE [u |-> 0,
          err |-> PlainError("firevault: strconv.ParseUint: parsing \"" \o Join(param)
                             \o "\": invalid syntax")]

(* time.Parse(layout, value) for the layout "2006" and the years of the    *)
(* tags.  A time is the number of years after the zero time (year 1).      *)
YearLiterals ==
    [y \in {"2001", "2002", "2003"} |->
        CASE y = "2001" -> 2000 [] y = "2002" -> 2001 [] y = "2003" -> 2002]

asTime(param) ==
    LET params == Split(param, "|")
    IN IF Len(params) < 2
       THEN [t |-> 0,
             err |-> PlainError("firevault: time param must be in the format 'layout|value'")]
       ELSE IF params[1] = <<"2006">> /\ Len(params[2]) = 1
                  /\ params[2][1] \in DOMAIN YearLiterals
            THEN [t |-> YearLiterals[params[2][1]], err |-> NoErr]
            ELSE [t |-> 0,
                  err |-> PlainError("firevault: parsing time \"" \o Join(params[2])
                                     \o "\" as \"" \o Join(params[1]) \o "\": cannot parse")]

(* reflect.Value.Len of a string, slice or map. *)
LenOf(v) ==
    CASE v.kind = "string" -> Len(v.s)
      [] v.kind = "map" -> Len(v.keys)
      [] OTHER -> Len(v.elems)

(* reflect.Value.String: the string itself, "<T Value>" for any other kind. *)
StringOf(v) == IF v.kind = "string" THEN v.s ELSE "<" \o TypeOf(v) \o " Value>"

validateRequired(fieldPath, fieldValue, param) ==
    [ok |-> hasValue(fieldValue), err |-> NoErr]

(* The strings of the model that the e-mail expression matches. *)
EmailMatches == {"john@x.com", "john@example.com"}

validateEmail(fieldPath, fieldValue, param) ==
    [ok |-> StringOf(fieldValue) \in EmailMatches, err |-> NoErr]

(* validateMax with an exclusive bound on lengths *)
validateMaxExclusive(fieldPath, fieldValue, param) ==
    [ok |-> fieldValue.kind \in {"string", "slice", "array", "map"}
               /\ LenOf(fieldValue) < asInt(param).i,
     err |-> NoErr]

validateMax(fieldPath, fieldValue, param) ==
    IF param = <<>>
    THEN [ok |-> FALSE, err |-> PlainError("firevault: provide a max param - " \o fieldPath)]
    ELSE CASE fieldValue.kind \in {"string", "slice", "array", "map"} ->
                IF asInt(param).err # NoErr
                THEN [ok |-> FALSE, err |-> asInt(param).err]
                ELSE [ok |-> LenOf(fieldValue) <= asInt(param).i, err |-> NoErr]
           [] fieldValue.kind = "int" ->
                IF asInt(param).err # NoErr
                THEN [ok |-> FALSE, err |-> asInt(param).err]
                ELSE [ok |-> fieldValue.n <= asInt(param).i, err |-> NoErr]
           [] fieldValue.kind = "uint" ->
                IF asUint(param).err # NoErr
                THEN [ok |-> FALSE, err |-> asUint(param).err]
                ELSE [ok |-> fieldValue.n <= asUint(param).u, err |-> NoErr]
           [] fieldValue.kind = "struct" /\ fieldValue.typ = "time.Time" ->
                IF asTime(param).err # NoErr
                THEN [ok |-> FALSE, err |-> NoErr]
                ELSE [ok |-> fieldValue.t > asTime(param).t, err |-> NoErr]
           [] OTHER ->
                [ok |-> FALSE,
                 err |-> PlainError("firevault: invalid field type - " \o fieldPath)]

(* validateMin that reports every misuse as a failed check *)
validateMinNoConfig(fieldPath, fieldValue, param) == [ok |-> FALSE, err |-> NoErr]

(* validateMin with the comparison of validateMax *)
validateMinAsMax(fieldPath, fieldValue, param) == validateMax(fieldPath, fieldValue, param)

validateMin(fieldPath, fieldValue, param) ==
    IF param = <<>>
    THEN [ok |-> FALSE, err |-> PlainError("firevault: provide a min param - " \o fieldPath)]
    ELSE CASE fieldValue.kind \in {"string", "slice", "array", "map"} ->
                IF asInt(param).err # NoErr
                THEN [ok |-> FALSE, err |-> asInt(param).err]
                ELSE [ok |-> LenOf(fieldValue) >= asInt(param).i, err |-> NoErr]
           [] fieldValue.kind = "int" ->
                IF asInt(param).err # NoErr
                THEN [ok |-> FALSE, err |-> asInt(param).err]
                ELSE [ok |-> fieldValue.n >= asInt(param).i, err |-> NoErr]
           [] fieldValue.kind = "uint" ->
                IF asUint(param).err # NoErr
                THEN [ok |-> FALSE, err |-> asUint(param).err]
                ELSE [ok |-> fieldValue.n >= asUint(param).u, err |-> NoErr]
           [] fieldValue.kind = "struct" /\ fieldValue.typ = "time.Time" ->
                IF asTime(param).err # NoErr
                THEN [ok |-> FALSE, err |-> asTime(param).err]
                ELSE [ok |-> fieldValue.t < asTime(param).t, err |-> NoErr]
           [] OTHER ->
                [ok |-> FALSE,
                 err |-> PlainError("firevault: invalid field type - " \o fieldPath)]

(* The seven names newValidator registers, each with its function. *)
builtInValidators ==
    [n \in {"required", "required_create", "required_update", "required_validate",
            "email", "max", "min"} |->
        CASE n = "email" -> "validateEmail"
          [] n = "max" -> "validateMax"
          [] n = "min" -> "validateMin"
          [] OTHER -> "validateRequired"]

-----------------------------------------------------------------------------
(* The functions a caller registers.  fnCustom and fnUpper are the ones of *)
(* the repository's tests; fnErr is a validation that returns an error,    *)
(* fnTransErr a transformation that returns one, fnNil a transformation    *)
(* that returns (nil, nil).  NilFn is the nil function value.              *)

NilFn == "nil"

(* strings.ToUpper on the strings of the model. *)
ToUpper(s) ==
    CASE s = "test" -> "TEST"
      [] s = "custom" -> "CUSTOM"
      [] s = "Jo" -> "JO"
      [] s = "John Doe" -> "JOHN DOE"
      [] s = "john@x.com" -> "JOHN@X.COM"
      [] s = "not-an-email" -> "NOT-AN-EMAIL"
      [] s = "<int Value>" -> "<INT VALUE>"
      [] OTHER -> s

fnCustom(fieldPath, fieldValue, param) ==
    [ok |-> StringOf(fieldValue) = "custom", err |-> NoErr]

fnErr(fieldPath, fieldValue, param) ==
    [ok |-> FALSE, err |-> PlainError("custom validation failed to run")]

fnUpper(fieldPath, fieldValue) ==
    [isNil |-> FALSE, val |-> S(ToUpper(StringOf(fieldValue))), err |-> NoErr]

fnTransErr(fieldPath, fieldValue) ==
    [isNil |-> TRUE, val |-> fieldValue, err |-> PlainError("transformation failed to run")]

fnNil(fieldPath, fieldValue) ==
    [isNil |-> TRUE, val |-> fieldValue, err |-> NoErr]

(* context.Context as the functions see it: which context it is, and      *)
(* whether it has been cancelled (ctx.Err() != nil)                        *)
Background == [id |-> "background", cancelled |-> FALSE]
Cancelled == [id |-> "request", cancelled |-> TRUE]

(* a validation that gives up when its context is cancelled *)
fnCtx(ctx, fieldPath, fieldValue, param) ==
    IF ctx.cancelled
    THEN [ok |-> FALSE, err |-> PlainError("context canceled")]
    ELSE [ok |-> TRUE, err |-> NoErr]

(* validation(ctx, fieldPath, fieldValue, param) *)
CallValidation(ctx, fn, fieldPath, fieldValue, param) ==
    CASE fn = "validateRequired" -> validateRequired(fieldPath, fieldValue, param)
      [] fn = "validateEmail" -> validateEmail(fieldPath, fieldValue, param)
      [] fn = "validateMax" -> validateMax(fieldPath, fieldValue, param)
      [] fn = "validateMin" -> validateMin(fieldPath, fieldValue, param)
      [] fn = "fnCustom" -> fnCustom(fieldPath, fieldValue, param)
      [] fn = "fnErr" -> fnErr(fieldPath, fieldValue, param)
      [] fn = "fnCtx" -> fnCtx(ctx, fieldPath, fieldValue, param)

(* transformation(ctx, fieldPath, fieldValue) *)
CallTransformation(ctx, fn, fieldPath, fieldValue) ==
    CASE fn = "fnUpper" -> fnUpper(fieldPath, fieldValue)
      [] fn = "fnTransErr" -> fnTransErr(fieldPath, fieldValue)
      [] fn = "fnNil" -> fnNil(fieldPath, fieldValue)

-----------------------------------------------------------------------------
(* src/validator.go *)

(* methodType *)
create == "create"
update == "update"
validate == "validate"

(* a fieldError whose field is the native identifier *)
FieldErrorOfNative(code, rule, fieldName, structFieldName, fieldValue, param) ==
    [type |-> "fieldError", code |-> code, tag |-> rule, field |-> structFieldName,
     structField |-> structFieldName, value |-> fieldValue, param |-> param,
     kind |-> fieldValue.kind, typ |-> TypeOf(fieldValue)]

FieldErrorOf(code, rule, fieldName, structFieldName, fieldValue, param) ==
    [type |-> "fieldError", code |-> code, tag |-> rule, field |-> fieldName,
     structField |-> structFieldName, value |-> fieldValue, param |-> param,
     kind |-> fieldValue.kind, typ |-> TypeOf(fieldValue)]

(* fieldError.Error *)
ErrorString(fe) ==
    "firevault: field validation for '" \o fe.field \o "' failed on the '"
        \o fe.tag \o "' tag"

parseTag(tag) ==
    LET rules == Split(tag, ",")
    IN [i \in 1..Len(rules) |-> TrimSpace(rules[i])]

(* getFieldPath that joins with a dot at the root too *)
getFieldPathAlwaysDot(path, fieldName) == path \o "." \o fieldName

getFieldPath(path, fieldName) ==
    IF path = "" THEN fieldName ELSE path \o "." \o fieldName

validateFieldType(fieldValue, fieldPath) ==
    IF ~isSupported(fieldValue)
    THEN PlainError("firevault: unsupported field type - " \o fieldPath)
    ELSE NoErr

(* slices.Contains(rules, name) on the parsed tokens, the name slot included *)
HasToken(rules, name) == \E i \in 1..Len(rules) : Join(rules[i]) = name

(* shouldSkipField without the allow-list *)
shouldSkipFieldNoAllowList(fieldValue, fieldPath, rules, opts) ==
    (HasToken(rules, "omitempty") \/ HasToken(rules, "omitempty_" \o opts.method))
        /\ ~hasValue(fieldValue)

(* shouldSkipField that lets required come first *)
shouldSkipFieldUnlessRequired(fieldValue, fieldPath, rules, opts) ==
    /\ HasToken(rules, "omitempty") \/ HasToken(rules, "omitempty_" \o opts.method)
    /\ ~Contains(opts.emptyFieldsAllowed, fieldPath)
    /\ ~hasValue(fieldValue)
    /\ ~HasToken(rules, "required")

shouldSkipField(fieldValue, fieldPath, rules, opts) ==
    LET omitEmptyMethodTag == "omitempty_" \o opts.method
        shouldOmitEmpty == HasToken(rules, "omitempty") \/ HasToken(rules, omitEmptyMethodTag)
    IN IF shouldOmitEmpty /\ ~Contains(opts.emptyFieldsAllowed, fieldPath)
       THEN ~hasValue(fieldValue)
       ELSE FALSE

IsOmitToken(rule) ==
    Join(rule) \in {"omitempty", "omitempty_" \o create, "omitempty_" \o update,
                    "omitempty_" \o validate}

RECURSIVE cleanRulesFrom(_, _)
cleanRulesFrom(rules, index) ==
    IF index > Len(rules) THEN <<>>
    ELSE (IF index # 1 /\ ~IsOmitToken(rules[index]) THEN <<rules[index]>> ELSE <<>>)
         \o cleanRulesFrom(rules, index + 1)

cleanRules(rules) == cleanRulesFrom(rules, 1)

(* strings.HasPrefix(rule, "transform=") *)
IsTransform(rule) == Len(rule) >= 2 /\ rule[1] = "transform" /\ rule[2] = "="

(* strings.Cut(rule, "=") *)
CutRule(rule) ==
    LET i == IndexOf(rule, "=", 1)
    IN IF i = 0 THEN [rule |-> Join(rule), param |-> <<>>]
       ELSE [rule |-> Join(SubSeq(rule, 1, i - 1)),
             param |-> SubSeq(rule, i + 1, Len(rule))]

(* One call of a registered function, as the walk made it: what it was      *)
(* given and what it returned.                                             *)
Invocation(ctx, call, fn, name, fieldPath, fieldValue, param, ret) ==
    [ctx |-> ctx, call |-> call, fn |-> fn, rule |-> name, path |-> fieldPath,
     value |-> fieldValue, param |-> param, ret |-> ret]

(* One rule of applyRules' loop: f holds the arguments that stay the same  *)
(* (fieldPath, fieldName, structFieldName, rules, method).  changed says   *)
(* whether a transformation has replaced fieldValue, which is when the     *)
(* reflect.Value returned differs from the one passed in.                  *)
RECURSIVE applyRulesFrom(_, _, _, _, _)
applyRulesFrom(f, k, fieldValue, changed, log) ==
    IF k > Len(f.rules)
    THEN [status |-> "ok", value |-> fieldValue, changed |-> changed,
          err |-> NoErr, log |-> log]
    ELSE
    LET rule == f.rules[k]
        requiredMethodTag == "required" \o f.method
        isRequiredRule == Join(rule) = "required" \/ Join(rule) = requiredMethodTag
        Fail(e, l) == [status |-> "err", value |-> fieldValue, changed |-> changed,
                       err |-> e, log |-> l]
        fe(code, param) ==
            FieldErrorOf(code, Join(rule), f.fieldName, f.structFieldName,
                         fieldValue, param)
    IN IF ~hasValue(fieldValue) /\ ~isRequiredRule
       THEN applyRulesFrom(f, k + 1, fieldValue, changed, log)
       ELSE IF IsTransform(rule)
       THEN LET transName == Join(SubSeq(rule, 3, Len(rule)))
            IN IF transName \in DOMAIN transformations
               THEN LET r == CallTransformation(f.ctx, transformations[transName],
                                                f.fieldPath, fieldValue)
                        l == Append(log, Invocation(f.ctx, "transformation",
                                        transformations[transName], transName,
                                        f.fieldPath, fieldValue, <<>>, r))
                    IN IF r.err # NoErr THEN Fail(r.err, l)
                       ELSE IF ~r.isNil
                            THEN applyRulesFrom(f, k + 1, r.val, TRUE, l)
                            ELSE applyRulesFrom(f, k + 1, fieldValue, changed, l)
               ELSE Fail(fe("unknown-transformation", ""), log)
       ELSE LET c == CutRule(rule)
            IN IF c.rule \in DOMAIN validations
               THEN LET r == CallValidation(f.ctx, validations[c.rule], f.fieldPath,
                                            fieldValue, c.param)
                        l == Append(log, Invocation(f.ctx, "validation", validations[c.rule],
                                        c.rule, f.fieldPath, fieldValue, c.param, r))
                    IN IF r.err # NoErr THEN Fail(r.err, l)
                       ELSE IF ~r.ok
                            THEN Fail(fe("failed-validation", Join(c.param)), l)
                            ELSE applyRulesFrom(f, k + 1, fieldValue, changed, l)
               ELSE Fail(fe("unknown-validation", Join(c.param)), log)

(* applyRules over the rules in reverse *)
applyRulesReversed(ctx, fieldValue, fieldPath, fieldName, structFieldName, rules, method) ==
    applyRulesFrom([fieldPath |-> fieldPath, fieldName |-> fieldName,
                    structFieldName |-> structFieldName, rules |-> Reverse(rules),
                    method |-> method, ctx |-> ctx],
                   1, fieldValue, FALSE, <<>>)

(* applyRules that dispatches nothing *)
applyRulesNoDispatch(ctx, fieldValue, fieldPath, fieldName, structFieldName, rules, method) ==
    [status |-> "ok", value |-> fieldValue, changed |-> FALSE, err |-> NoErr,
     log |-> <<>>]

(* applyRules that gives the functions a context of its own *)
applyRulesDetached(ctx, fieldValue, fieldPath, fieldName, structFieldName, rules, method) ==
    applyRulesFrom([fieldPath |-> fieldPath, fieldName |-> fieldName,
                    structFieldName |-> structFieldName, rules |-> rules,
                    method |-> method, ctx |-> Background],
                   1, fieldValue, FALSE, <<>>)

applyRules(ctx, fieldValue, fieldPath, fieldName, structFieldName, rules, method) ==
    applyRulesFrom([fieldPath |-> fieldPath, fieldName |-> fieldName,
                    structFieldName |-> structFieldName, rules |-> rules,
                    method |-> method, ctx |-> ctx],
                   1, fieldValue, FALSE, <<>>)

(* The output document and the values in it: a map[string]interface{} is   *)
(* a function from keys, a []interface{} a sequence; any other value is    *)
(* the field's value itself.  NilDoc is the nil map returned with an error.*)
NilDoc == [kind |-> "nil"]
DocOf(m) == [kind |-> "doc", m |-> m]
ListOf(elems) == [kind |-> "list", elems |-> elems]
EmptyMap == [k \in {} |-> NilDoc]
(* a map assignment that keeps the value a key already has *)
MapPutFirst(m, k, v) == [x \in DOMAIN m \cup {k} |-> IF x \in DOMAIN m THEN m[x] ELSE v]

MapPut(m, k, v) == [x \in DOMAIN m \cup {k} |-> IF x = k THEN v ELSE m[x]]

(* What a walk returns: status "ok", "err" or "panic" (a reflect panic,     *)
(* which nothing recovers), the document, the error, the walked value as   *)
(* the walk left it, and the functions it invoked, in order.               *)
Walked(status, out, err, value, log) ==
    [status |-> status, out |-> out, err |-> err, value |-> value, log |-> log]

(* a field without a firevault tag, or tagged "-", is passed over *)
IsIgnoredNever(tag) == FALSE

IsIgnored(tag) == tag = <<>> \/ tag = <<"-">>

RECURSIVE validateFieldsFrom(_, _, _, _, _, _, _, _, _)
RECURSIVE processFinalValue(_, _, _, _, _, _)
RECURSIVE processMapFrom(_, _, _, _, _, _, _, _)
RECURSIVE processSliceFrom(_, _, _, _, _, _, _, _)

(* The loop of validateFields from field i on.  addr: rs.values is         *)
(* addressable, so that its fields can be Set.  rev: the order in which    *)
(* the maps of this call are ranged over.  The steps of one iteration are  *)
(* the operators of the LET, each handing what it computed to the next.    *)
validateFieldsFrom(ctx, rs, i, path, opts, addr, rev, dataMap, log) ==
    LET fld == rs.fields[i]
        isElem == fld.val.kind = "ptr" /\ ~fld.val.isNil
        fieldValue == IF isElem THEN fld.val.elem ELSE fld.val
        Skip == validateFieldsFrom(ctx, rs, i + 1, path, opts, addr, rev, dataMap, log)
        (* dataMap[fieldName] = finalValue; the record keeps the walked value *)
        AddFinal(fieldName, ar, log1, pf, rs2) ==
            IF pf.status # "ok"
            THEN Walked(pf.status, NilDoc, pf.err, rs2, log1 \o pf.log)
            ELSE validateFieldsFrom(ctx, rs2, i + 1, path, opts, addr, rev,
                                    MapPut(dataMap, fieldName, pf.out), log1 \o pf.log)
        Final(fieldName, ar, log1, pf) ==
            AddFinal(fieldName, ar, log1, pf,
                     [rs EXCEPT !.fields[i].val =
                         IF isElem /\ ~ar.changed THEN PtrTo(pf.value) ELSE pf.value])
        (* rs.values.Field(i).Set(newFieldValue), then processFinalValue *)
        SetAndProcess(fieldName, fieldPath, ar, log1) ==
            IF ar.status = "err"
            THEN Walked("err", NilDoc, ar.err, rs, log1)
            ELSE IF ar.changed /\ (~addr \/ TypeOf(ar.value) # TypeOf(fld.val))
            THEN Walked("panic", NilDoc, NoErr, rs, log1)
            ELSE Final(fieldName, ar, log1,
                       processFinalValue(ctx, ar.value, fieldPath, opts,
                                         IF ar.changed THEN FALSE
                                         ELSE IF isElem THEN TRUE ELSE addr,
                                         rev))
        Applied(fieldName, fieldPath, ar) ==
            SetAndProcess(fieldName, fieldPath, ar, log \o ar.log)
        (* the pointee of a non-nil pointer; applyRules unless skipped *)
        Apply(fieldName, fieldPath, rules) ==
            Applied(fieldName, fieldPath,
                    IF opts.skipValidation
                    THEN [status |-> "ok", value |-> fieldValue, changed |-> FALSE,
                          err |-> NoErr, log |-> <<>>]
                    ELSE applyRules(ctx, fieldValue, fieldPath, fieldName, fld.name, rules, opts.method))
        Check(rules, fieldName, fieldPath) ==
            IF validateFieldType(fld.val, fieldPath) # NoErr
            THEN Walked("err", NilDoc, validateFieldType(fld.val, fieldPath), rs, log)
            ELSE IF shouldSkipField(fld.val, fieldPath, rules, opts)
            THEN Skip
            ELSE Apply(fieldName, fieldPath, cleanRules(rules))
        Named(rules, fieldName) == Check(rules, fieldName, getFieldPath(path, fieldName))
        Parsed(rules) ==
            Named(rules, IF Join(rules[1]) # "" THEN Join(rules[1]) ELSE fld.name)
    IN IF i > Len(rs.fields)
       THEN Walked("ok", DocOf(dataMap), NoErr, rs, log)
       ELSE IF IsIgnored(fld.tag)
       THEN Skip
       ELSE Parsed(parseTag(fld.tag))

(* validateFields over the fields in reverse *)
validateFieldsReversed(ctx, rs, path, opts, addr, rev) ==
    validateFieldsFrom(ctx, [rs EXCEPT !.fields = Reverse(@)], 1, path, opts, addr, rev,
                       EmptyMap, <<>>)

validateFields(ctx, rs, path, opts, addr, rev) ==
    validateFieldsFrom(ctx, rs, 1, path, opts, addr, rev, EmptyMap, <<>>)

processStructValue(ctx, fieldValue, fieldPath, opts, addr, rev) ==
    IF fieldValue.typ = "time.Time"
    THEN Walked("ok", fieldValue, NoErr, fieldValue, <<>>)
    ELSE validateFields(ctx, fieldValue, fieldPath, opts, addr, rev)

(* The loop of processMapValue over the keys in the order ks; the values   *)
(* of a map are not addressable.                                           *)
processMapFrom(ctx, fieldValue, ks, fieldPath, opts, rev, newMap, log) ==
    IF ks = <<>>
    THEN Walked("ok", DocOf(newMap), NoErr, fieldValue, log)
    ELSE LET key == Head(ks)
             newFieldPath == fieldPath \o "." \o key
             pv == processFinalValue(ctx, fieldValue.vals[key], newFieldPath, opts,
                                     FALSE, rev)
         IN IF pv.status # "ok"
            THEN Walked(pv.status, NilDoc, pv.err, fieldValue, log \o pv.log)
            ELSE processMapFrom(ctx, fieldValue, Tail(ks), fieldPath, opts, rev,
                                MapPut(newMap, key, pv.out), log \o pv.log)

processMapValue(ctx, fieldValue, fieldPath, opts, rev) ==
    processMapFrom(ctx, fieldValue,
                   IF rev THEN Reverse(fieldValue.keys) ELSE fieldValue.keys,
                   fieldPath, opts, rev, EmptyMap, <<>>)

(* fmt.Sprintf("%d", i) for the zero-based index of element i *)
IndexText(i) ==
    CASE i = 1 -> "0" [] i = 2 -> "1" [] i = 3 -> "2" [] i = 4 -> "3" [] OTHER -> "4"

(* The loop of processSliceValue from element i on; the elements of a      *)
(* slice are addressable.                                                  *)
processSliceFrom(ctx, fieldValue, i, fieldPath, opts, rev, newSlice, log) ==
    IF i > Len(fieldValue.elems)
    THEN Walked("ok", ListOf(newSlice), NoErr, fieldValue, log)
    ELSE LET newFieldPath == fieldPath \o "[" \o IndexText(i) \o "]"
             pv == processFinalValue(ctx, fieldValue.elems[i], newFieldPath, opts,
                                     TRUE, rev)
             fv == [fieldValue EXCEPT !.elems[i] = pv.value]
         IN IF pv.status # "ok"
            THEN Walked(pv.status, NilDoc, pv.err, fv, log \o pv.log)
            ELSE processSliceFrom(ctx, fv, i + 1, fieldPath, opts, rev,
                                  Append(newSlice, pv.out), log \o pv.log)

(* processSliceValue over the elements in reverse *)
processSliceValueReversed(ctx, fieldValue, fieldPath, opts, rev) ==
    processSliceFrom(ctx, [fieldValue EXCEPT !.elems = Reverse(@)], 1, fieldPath, opts, rev,
                     <<>>, <<>>)

processSliceValue(ctx, fieldValue, fieldPath, opts, rev) ==
    processSliceFrom(ctx, fieldValue, 1, fieldPath, opts, rev, <<>>, <<>>)

processFinalValue(ctx, fieldValue, fieldPath, opts, addr, rev) ==
    CASE fieldValue.kind = "struct" ->
            processStructValue(ctx, fieldValue, fieldPath, opts, addr, rev)
      [] fieldValue.kind = "map" -> processMapValue(ctx, fieldValue, fieldPath, opts, rev)
      [] fieldValue.kind \in {"array", "slice"} ->
            processSliceValue(ctx, fieldValue, fieldPath, opts, rev)
      [] OTHER -> Walked("ok", fieldValue, NoErr, fieldValue, <<>>)

(* validate that also walks a struct passed by value *)
validatorValidateByValue(ctx, d, opts, rev) ==
    IF d.kind = "struct"
    THEN validateFields(ctx, d, "", opts, FALSE, rev)
    ELSE IF d.kind # "ptr" \/ d.isNil \/ d.elem.kind # "struct"
    THEN Walked("err", NilDoc,
                PlainError("firevault: data must be a pointer to a struct"), d, <<>>)
    ELSE [validateFields(ctx, d.elem, "", opts, TRUE, rev) EXCEPT !.value = PtrTo(@)]

(* validate that puts the record back as it was when the walk fails *)
validatorValidateRestoring(ctx, d, opts, rev) ==
    IF d.kind # "ptr" \/ d.isNil \/ d.elem.kind # "struct"
    THEN Walked("err", NilDoc,
                PlainError("firevault: data must be a pointer to a struct"), d, <<>>)
    ELSE [validateFields(ctx, d.elem, "", opts, TRUE, rev) EXCEPT
             !.value = IF validateFields(ctx, d.elem, "", opts, TRUE, rev).status = "err"
                       THEN d ELSE PtrTo(@)]

(* validator.validate: data is what the caller passes, a pointer to the    *)
(* record in every call that reaches the walk.                             *)
validatorValidate(ctx, d, opts, rev) ==
    IF d.kind # "ptr"
    THEN Walked("err", NilDoc,
                PlainError("firevault: data must be a pointer to a struct"), d, <<>>)
    ELSE IF d.isNil \/ d.elem.kind # "struct"
    THEN Walked("err", NilDoc,
                PlainError("firevault: data must be a pointer to a struct"), d, <<>>)
    ELSE LET w == validateFields(ctx, d.elem, "", opts, TRUE, rev)
         IN [w EXCEPT !.value = PtrTo(w.value)]

-----------------------------------------------------------------------------
(* Options and their parsing by the collection methods *)

NewOptions ==
    [skipValidation |-> FALSE, skipRequired |-> FALSE, unskipRequired |-> FALSE,
     allowEmptyFields |-> <<>>]
SkipValidation(o) == [o EXCEPT !.skipValidation = TRUE]
SkipRequired(o) == [o EXCEPT !.skipRequired = TRUE]
UnskipRequired(o) == [o EXCEPT !.unskipRequired = TRUE]
AllowEmptyFields(o, fields) == [o EXCEPT !.allowEmptyFields = @ \o fields]

(* parseOptions that never skips validation *)
parseOptionsNoSkip(method, opts) ==
    [method |-> method, skipValidation |-> FALSE, skipRequired |-> method # create,
     allowOmitEmptyUpdate |-> method # create, emptyFieldsAllowed |-> <<>>]

(* Collection.parseOptions(method, opts...): opts is the variadic          *)
(* argument, a sequence of at most one Options.  The allow-list is the     *)
(* field validator.go reads as emptyFieldsAllowed.                         *)
parseOptions(method, opts) ==
    LET options == [method |-> method, skipValidation |-> FALSE,
                    skipRequired |-> method # create,
                    allowOmitEmptyUpdate |-> method # create,
                    emptyFieldsAllowed |-> <<>>]
        passedOpts == opts[1]
    IN IF Len(opts) = 0 THEN options
       ELSE [options EXCEPT
                !.skipValidation = passedOpts.skipValidation,
                !.skipRequired =
                    IF method # create
                    THEN (IF passedOpts.unskipRequired THEN FALSE ELSE @)
                    ELSE (IF passedOpts.skipRequired THEN TRUE ELSE @),
                !.emptyFieldsAllowed =
                    IF Len(passedOpts.allowEmptyFields) > 0
                    THEN passedOpts.allowEmptyFields ELSE @]

-----------------------------------------------------------------------------
(* The registry *)

(* registerValidation that accepts any name and any function *)
registerValidationErrNone(name, validation) == NoErr

(* registerValidation's checks: the error it returns, NoErr when it stores *)
registerValidationErr(name, validation) ==
    IF name = ""
    THEN PlainError("firevault: validation function name cannot be empty")
    ELSE IF validation = NilFn
    THEN PlainError("firevault: validation function " \o name \o " cannot be empty")
    ELSE NoErr

registerTransformationErr(name, transformation) ==
    IF name = ""
    THEN PlainError("firevault: transformation function name cannot be empty")
    ELSE IF transformation = NilFn
    THEN PlainError("firevault: transformation function " \o name \o " cannot be empty")
    ELSE NoErr

-----------------------------------------------------------------------------
(* The records the caller validates *)

MaxSliceLen == 2

T_Name == <<"name">>
T_Required == <<"name", ",", "required">>
T_RequiredOnly == <<",", "required">>
T_RequiredOmit == <<"name", ",", "required", ",", "omitempty">>
T_Omit == <<"name", ",", "omitempty">>
T_OmitUpdate == <<"name", ",", "omitempty_update">>
T_OmitMin == <<"name", ",", "omitempty", ",", "min", "=", "3">>
T_MinOmit == <<"name", ",", "min", "=", "3", ",", "omitempty">>
T_Min == <<"name", ",", "min", "=", "3">>
T_MinOnly == <<",", "min", "=", "3">>
T_Email == <<"email", ",", "email">>
T_Unknown == <<"name", ",", "unknown">>
T_MinUnknown == <<"name", ",", "min", "=", "3", ",", "unknown">>
T_CustomUpperMin ==
    <<"name", ",", "custom", ",", "transform", "=", "uppercase", ",", "min", "=", "3">>
T_UpperCustom == <<"name", ",", "transform", "=", "uppercase", ",", "custom">>
T_Upper == <<"name", ",", "transform", "=", "uppercase">>

Leaf(tag, val) == Struct("Leaf", <<Field("Name", tag, val)>>)
Outer(name, tag, val) == Struct("Outer", <<Field(name, tag, val)>>)

(* one value of every kind, empty and not *)
KindVals ==
    {S(""), S("Jo"), I(0), I(30), B(FALSE), B(TRUE),
     NilPtr(S("")), PtrTo(S("")), PtrTo(S("Jo")),
     NilSlice("string"), SliceOf("string", <<>>), SliceOf("string", <<S("a")>>),
     NilMap("string"), MapOf("string", <<>>, <<>>),
     Leaf(T_Name, S("")), Leaf(T_Name, S("Jo")), Time(0), Time(5)}

RequiredRecords == {Leaf(t, v) : t \in {T_Required, T_RequiredOnly}, v \in KindVals}

OmitRecords ==
    {Leaf(t, v) :
        t \in {T_Name, T_Omit, T_OmitUpdate, T_OmitMin, T_MinOmit, T_Min, T_RequiredOmit},
        v \in {S(""), S("Jo"), I(0), NilPtr(S("")), PtrTo(S("")), NilSlice("string")}}

RuleRecords ==
    {Leaf(t, v) :
        t \in {T_CustomUpperMin, T_UpperCustom, T_Upper, T_Unknown, T_MinUnknown,
               T_MinOnly},
        v \in {S(""), S("Jo"), S("custom"), I(30)}}

(* A record of three fields: Name carries min=3 with an empty name slot.   *)
Person(name, age, email) ==
    Struct("Person", <<Field("Name", T_MinOnly, S(name)),
                       Field("Age", <<"age">>, I(age)),
                       Field("Email", T_Email, S(email))>>)

(* CustomStruct of TestCustomRules *)
CustomStruct(customField, uppercaseField) ==
    Struct("CustomStruct",
           <<Field("CustomField", <<"custom_field", ",", "custom">>, S(customField)),
             Field("UppercaseField",
                   <<"uppercase_field", ",", "transform", "=", "uppercase">>,
                   S(uppercaseField))>>)

(* Address and TestStruct of TestValidate *)
Address(street, city) ==
    Struct("Address", <<Field("Street", <<",", "required">>, S(street)),
                        Field("City", <<",", "required">>, S(city))>>)

TestStruct(name, age, email, address, tags) ==
    Struct("TestStruct",
           <<Field("Name", <<"name", ",", "required", ",", "min", "=", "3", ",",
                             "max", "=", "50">>, S(name)),
             Field("Age", <<"age", ",", "min", "=", "18", ",", "max", "=", "120">>,
                   I(age)),
             Field("Email", <<"email", ",", "required", ",", "email">>, S(email)),
             Field("CreatedAt", <<"created_at", ",", "omitempty">>, Time(0)),
             Field("Address", <<"address">>, address),
             Field("Tags", <<"tags", ",", "min", "=", "1", ",", "max", "=", "5">>,
                   tags)>>)

ScenarioRecords ==
    {Person("Jo", 30, "john@x.com"), Person("John Doe", 30, "not-an-email"),
     Person("John Doe", 30, "john@x.com"),
     CustomStruct("custom", "test"), CustomStruct("not custom", "test"),
     TestStruct("John Doe", 30, "john@example.com", Address("123 Main St", "Anytown"),
                SliceOf("string", <<S("tag1"), S("tag2")>>)),
     TestStruct("Jo", 30, "john@example.com", Address("123 Main St", "Anytown"),
                NilSlice("string")),
     TestStruct("John Doe", 30, "john@example.com", Address("123 Main St", ""),
                NilSlice("string"))}

(* the structs nested in a field, a slice or a map *)
ElemLeafs ==
    {Leaf(T_RequiredOnly, S("")), Leaf(T_RequiredOnly, S("Jo")), Leaf(T_Upper, S("test"))}

InnerLeafs ==
    ElemLeafs \cup {Leaf(T_Unknown, S("Jo")), Leaf(T_Unknown, S("")), Leaf(T_Min, S("Jo")),
                    Leaf(T_Omit, S(""))}

SeqsUpTo(elems, n) == UNION {[1..k -> elems] : k \in 0..n}

NestedRecords ==
    {Outer("Inner", <<"inner">>, l) : l \in InnerLeafs}
    \cup {Outer("Inner", <<"inner">>, PtrTo(l)) : l \in InnerLeafs}
    \cup {Outer("Items", <<"items">>, SliceOf("Leaf", s))
            : s \in SeqsUpTo(ElemLeafs, MaxSliceLen)}
    \cup {Outer("ByKey", <<"by_key">>, MapOf("Leaf", <<"a">>, [k \in {"a"} |-> l]))
            : l \in ElemLeafs}
    \cup {Outer("ByKey", <<"by_key">>, MapOf("Leaf", <<"a", "b">>, m))
            : m \in [{"a", "b"} -> ElemLeafs]}
    \cup {Outer("Tags", <<"tags">>, SliceOf("string", s))
            : s \in SeqsUpTo({S("a"), S("")}, MaxSliceLen)}
    \cup {Leaf(T_Upper, PtrTo(S("test"))), Leaf(T_Name, Chan),
          Leaf(T_Name, SliceOf("*Leaf", <<PtrTo(Leaf(T_RequiredOnly, S("")))>>)),
          Leaf(T_Unknown, S("")), Leaf(T_Unknown, S("Jo")),
          Leaf(T_MinUnknown, S("Jo")), Leaf(T_MinUnknown, S("custom")),
          Outer("Items", <<"items">>, SliceOf("Leaf", <<Leaf(T_Unknown, S("Jo"))>>)),
          Outer("Items", <<"items">>,
                SliceOf("Leaf", <<Leaf(T_RequiredOnly, S("")), Leaf(T_Unknown, S("Jo"))>>))}

(* records with fields that carry no tag or the tag "-": alone, next to a  *)
(* tagged field, and in a nested struct                                    *)
T_None == <<>>
T_Dash == <<"-">>

Mixed(tag, val, nameTag, name) ==
    Struct("Mixed", <<Field("Secret", tag, val), Field("Name", nameTag, S(name))>>)

IgnoreRecords ==
    {Leaf(t, v) : t \in {T_None, T_Dash}, v \in KindVals \cup {Chan}}
    \cup {Mixed(t, v, nt, n) : t \in {T_None, T_Dash}, v \in {S("Jo"), Chan},
                               nt \in {T_Required, T_Upper}, n \in {"", "test"}}
    \cup {Outer("Inner", <<"inner">>, Leaf(t, v)) : t \in {T_None, T_Dash},
                                                    v \in {S("Jo"), Chan}}

(* fields bounded by min and max: strings, slices, arrays and maps of      *)
(* length 0 to 3, signed and unsigned integers 1 to 3                      *)
T_Min2 == <<"name", ",", "min", "=", "2">>
T_Max2 == <<"name", ",", "max", "=", "2">>
T_Min2Max2 == <<"name", ",", "min", "=", "2", ",", "max", "=", "2">>
T_Min3Max3 == <<"name", ",", "min", "=", "3", ",", "max", "=", "3">>

MaxBound == 3

KeyNames == <<"a", "b", "c", "d">>

BoundVals ==
    {S("J"), S("Jo"), S("Joe")}
    \cup {I(n) : n \in 1..MaxBound} \cup {U(n) : n \in 1..MaxBound}
    \cup {SliceOf("string", [i \in 1..k |-> S("a")]) : k \in 0..MaxBound}
    \cup {ArrayOf("string", [i \in 1..k |-> S("a")]) : k \in 1..MaxBound}
    \cup {MapOf("string", SubSeq(KeyNames, 1, k),
                 [x \in {KeyNames[i] : i \in 1..k} |-> S("a")]) : k \in 1..MaxBound}

BoundRecords ==
    {Leaf(t, v) : t \in {T_Min2, T_Max2, T_Min2Max2, T_Min3Max3}, v \in BoundVals}

(* time.Time fields bounded by min and max; the parameter is layout|value *)
T_MaxTime == <<"at", ",", "max", "=", "2006", "|", "2002">>
T_MinTime == <<"at", ",", "min", "=", "2006", "|", "2002">>
T_MaxTimeBad == <<"at", ",", "max", "=", "2006", "|", "soon">>
T_MinTimeBad == <<"at", ",", "min", "=", "2006", "|", "soon">>
T_MinNoLayout == <<"at", ",", "min", "=", "2002">>

TimeRecords ==
    {Leaf(t, Time(y)) :
        t \in {T_MaxTime, T_MinTime, T_MaxTimeBad, T_MinTimeBad, T_MinNoLayout},
        y \in {0, 2000, 2001, 2002}}

(* registrations under the name of a built-in and under a name of the      *)
(* other registry, and records whose tags look those names up              *)
ShadowValidationRegs ==
    {<<"custom", "fnCustom">>, <<"custom", "fnErr">>, <<"min", "fnCustom">>,
     <<"uppercase", "fnCustom">>, <<"", "fnCustom">>, <<"min", NilFn>>}
ShadowTransformationRegs ==
    {<<"uppercase", "fnUpper">>, <<"uppercase", "fnNil">>, <<"custom", "fnUpper">>,
     <<"min", "fnUpper">>, <<"", "fnUpper">>, <<"uppercase", NilFn>>}

T_UppercaseRule == <<"name", ",", "uppercase">>
T_TransformCustom == <<"name", ",", "transform", "=", "custom">>

RegistryRecords ==
    {Leaf(T_Min2, S("Jo")), Leaf(T_Max2, S("custom")), Leaf(T_UpperCustom, S("custom")),
     Leaf(T_UppercaseRule, S("custom")), Leaf(T_TransformCustom, S("test")),
     Leaf(T_Required, S(""))}

(* tags with a doubled comma, a trailing comma and blanks around tokens *)
T_DoubledComma == <<"name", ",", ",", "required">>
T_TrailingComma == <<"name", ",", "required", ",">>
T_BlankSegment == <<"name", ",", " ", ",", "min", "=", "2">>
T_Spaced == <<"name", ",", " ", "required", " ", ",", " ", "min", "=", "2">>

TagRecords ==
    {Leaf(t, v) :
        t \in {T_DoubledComma, T_TrailingComma, T_BlankSegment, T_Spaced, T_Required,
               T_RequiredOnly, T_Min2},
        v \in {S(""), S("J"), S("Jo"), I(0), I(30)}}

(* min and max without a parameter, and on kinds they do not support *)
T_MinNoParam == <<"name", ",", "min">>
T_MaxNoParam == <<"name", ",", "max">>
T_MinEmptyParam == <<"name", ",", "min", "=">>

ConfigRecords ==
    {Leaf(t, v) :
        t \in {T_MinNoParam, T_MaxNoParam, T_MinEmptyParam, T_Min2, T_Max2},
        v \in {S("Jo"), I(3), B(TRUE), B(FALSE), Leaf(T_Name, S("Jo")),
               PtrTo(B(TRUE)), SliceOf("string", <<S("a")>>)}}

(* records with rules, omission directives, ignored fields and nesting,    *)
(* for calls that skip validation                                          *)
SkipRecords ==
    {Leaf(t, v) : t \in {T_Required, T_RequiredOnly, T_OmitMin, T_Upper, T_Unknown,
                          T_OmitUpdate},
                  v \in {S(""), S("Jo")}}
    \cup {Outer("Inner", <<"inner">>, l) : l \in ElemLeafs \cup {Leaf(T_Omit, S(""))}}
    \cup {Outer("Inner", <<"inner">>, PtrTo(l)) : l \in ElemLeafs}
    \cup {Mixed(T_Dash, Chan, T_Upper, "test"), Mixed(T_None, S("Jo"), T_Required, ""),
          Leaf(T_Upper, PtrTo(S("test"))), Leaf(T_Name, Chan),
          Outer("Items", <<"items">>,
                SliceOf("Leaf", <<Leaf(T_RequiredOnly, S("")), Leaf(T_Upper, S("test"))>>)),
          Outer("ByKey", <<"by_key">>,
                MapOf("Leaf", <<"a", "b">>,
                      [k \in {"a", "b"} |->
                          IF k = "a" THEN Leaf(T_Upper, S("test"))
                          ELSE Leaf(T_RequiredOnly, S(""))]))}

(* Tags of required-class and other tokens, on empty and non-empty values *)
T_RequiredCreate == <<"name", ",", "required_create">>
T_RequiredUpdate == <<"name", ",", "required_update">>
T_RequiredValidate == <<"name", ",", "required_validate">>
T_MinRequired == <<"name", ",", "min", "=", "3", ",", "required">>
T_UpperRequiredCreate ==
    <<"name", ",", "transform", "=", "uppercase", ",", "required_create">>
T_EmailCustom == <<"name", ",", "email", ",", "custom">>

EmptyRecords ==
    {Leaf(t, v) :
        t \in {T_RequiredCreate, T_RequiredUpdate, T_RequiredValidate, T_MinRequired,
               T_UpperRequiredCreate, T_EmailCustom},
        v \in {S(""), S("Jo"), NilPtr(S("")), PtrTo(S(""))}}

(* Fields of an unsupported kind, directly and behind a pointer, empty and *)
(* not, with and without an omission directive                             *)
UnsupportedRecords ==
    {Leaf(t, v) :
        t \in {T_Name, T_Omit, T_Required, T_RequiredOmit},
        v \in {Chan, MadeChan, NilFunc, Func, PtrTo(MadeChan), PtrTo(Func),
               NilPtr(Chan), NilPtr(NilFunc), S("Jo")}}

(* A record of four fields with rules at three depths: a string, a struct *)
(* with a rule of its own and two fields, a slice of structs, a string.    *)
T_Custom == <<"name", ",", "custom">>

Tree(first, left, elem, final) ==
    Struct("Tree",
           <<Field("First", <<"first", ",", "custom">>, S(first)),
             Field("Nested", <<"nested", ",", "required">>,
                   Struct("Pair",
                          <<Field("Left", <<"left", ",", "custom">>, S(left)),
                            Field("Right", <<"right", ",", "transform", "=", "uppercase">>,
                                  S("test"))>>)),
             Field("Items", <<"items">>, SliceOf("Leaf", <<Leaf(T_Custom, S(elem))>>)),
             Field("Last", <<"last", ",", "custom">>, S(final))>>)

OrderRecords ==
    {Tree(a, l, e, d) : a \in {"custom", "test"}, l \in {"custom", "test"},
                        e \in {"custom", "test"}, d \in {"custom", "test"}}

(* Records whose every tagged field carries required on a non-empty value, *)
(* so that each position is given to one function: a record with a struct, *)
(* a slice and a map; one whose map keys contain dots; one with an output  *)
(* name that contains a dot; one with two fields of the same output name.  *)
Req(name) == name \o <<",", "required">>

Shape ==
    Struct("Shape",
           <<Field("Title", Req(<<"title">>), S("Jo")),
             Field("Inner", Req(<<"inner">>), Leaf(T_Required, S("Jo"))),
             Field("Items", Req(<<"items">>),
                   SliceOf("Leaf", <<Leaf(T_Required, S("a")), Leaf(T_RequiredOnly, S("b"))>>)),
             Field("ByKey", Req(<<"by_key">>),
                   MapOf("Leaf", <<"a", "b">>,
                         [k \in {"a", "b"} |-> Leaf(T_RequiredOnly, S("Jo"))]))>>)

DottedKeys ==
    Struct("DottedKeys",
           <<Field("M", Req(<<"m">>),
                   MapOf("map[string]Leaf", <<"a.b", "a">>,
                         [k \in {"a.b", "a"} |->
                            IF k = "a.b"
                            THEN MapOf("Leaf", <<"c">>,
                                       [j \in {"c"} |-> Leaf(T_Required, S("Jo"))])
                            ELSE MapOf("Leaf", <<"b.c">>,
                                       [j \in {"b.c"} |-> Leaf(T_Required, S("Jo"))])]))>>)

DottedName ==
    Struct("DottedName",
           <<Field("Flat", Req(<<"inner", ".", "name">>), S("Jo")),
             Field("Inner", Req(<<"inner">>), Leaf(T_Required, S("Jo")))>>)

SharedName ==
    Struct("SharedName",
           <<Field("A", Req(<<"dup">>), S("x")), Field("B", Req(<<"dup">>), S("y"))>>)

PathRecords == {Shape, DottedKeys, DottedName, SharedName}

(* Trees whose first fields can be empty, so that the first function      *)
(* invoked is one of a nested field                                        *)
ContextRecords ==
    {Tree(a, l, "custom", "custom") : a \in {"", "custom"}, l \in {"", "custom"}}

(* Three string fields, each transformed; the second is validated after   *)
(* its transformation                                                      *)
Row(a, b, c) ==
    Struct("Row",
           <<Field("A", <<"a", ",", "transform", "=", "uppercase">>, S(a)),
             Field("B", <<"b", ",", "transform", "=", "uppercase", ",", "custom">>, S(b)),
             Field("C", <<"c", ",", "transform", "=", "uppercase">>, S(c))>>)

WriteBackRecords ==
    {Row(a, b, "test") : a \in {"", "test"}, b \in {"custom", "test"}}

(* Fields that carry required and an omission directive, and struct       *)
(* fields with a directive whose own fields carry required                 *)
T_OmitRequired == <<"name", ",", "omitempty", ",", "required">>
T_RequiredOmitCreate == <<"name", ",", "required", ",", "omitempty_create">>
T_InnerOmit == <<"inner", ",", "omitempty">>
T_InnerRequiredOmit == <<"inner", ",", "required", ",", "omitempty">>

PrecedenceRecords ==
    {Leaf(t, v) :
        t \in {T_RequiredOmit, T_OmitRequired, T_RequiredOmitCreate},
        v \in {S(""), S("Jo"), I(0), NilPtr(S("")), PtrTo(S("")), NilSlice("string")}}
    \cup {Outer("Inner", t, v) :
            t \in {T_InnerOmit, T_InnerRequiredOmit},
            v \in {Leaf(T_Required, S("")), Leaf(T_Required, S("Jo")),
                   NilPtr(Leaf(T_Required, S(""))), PtrTo(Leaf(T_Required, S("")))}}

(* what a caller can pass as data: nil, values that are not pointers, a    *)
(* nil pointer, pointers to something that is not a struct, and pointers   *)
(* to structs                                                              *)
ShapeInputs ==
    {Nil, S("Jo"), I(30), Leaf(T_Required, S("")), Leaf(T_Upper, S("test")),
     SliceOf("Leaf", <<Leaf(T_Required, S(""))>>),
     MapOf("Leaf", <<"a">>, [k \in {"a"} |-> Leaf(T_Required, S(""))]),
     NilPtr(Leaf(T_Required, S(""))), NilPtr(S("")),
     PtrTo(S("Jo")), PtrTo(I(30)), PtrTo(PtrTo(Leaf(T_Upper, S("test")))),
     PtrTo(SliceOf("Leaf", <<Leaf(T_Upper, S("test"))>>)),
     PtrTo(Leaf(T_Required, S(""))), PtrTo(Leaf(T_Upper, S("test"))), PtrTo(Time(5))}

Methods == {create, update, validate}

(* the variadic opts of a collection method *)
OptionChoices ==
    {<<>>, <<SkipValidation(NewOptions)>>, <<UnskipRequired(NewOptions)>>,
     <<AllowEmptyFields(NewOptions, <<"name">>)>>}

(* the registrations a caller makes: name and function *)
ValidationRegs ==
    {<<"custom", "fnCustom">>, <<"custom", "fnErr">>, <<"", "fnCustom">>,
     <<"custom", NilFn>>}
TransformationRegs ==
    {<<"uppercase", "fnUpper">>, <<"uppercase", "fnTransErr">>,
     <<"uppercase", "fnNil">>, <<"", "fnUpper">>, <<"uppercase", NilFn>>}

-----------------------------------------------------------------------------
(* Options as Go holds them.  allowEmptyFields and mergeFields are         *)
(* []string: a slice header (backing array, length, capacity) that a copy  *)
(* of the Options value shares with the value it was copied from.  The     *)
(* heap h is the sequence of backing arrays allocated so far.              *)

(* the nil []string *)
NilStrings == [arr |-> 0, len |-> 0, cap |-> 0]

(* the elements of slice s *)
Contents(h, s) == IF s.arr = 0 THEN <<>> ELSE SubSeq(h[s.arr], 1, s.len)

(* the capacity append allocates when newLen does not fit in oldCap: the   *)
(* needed length when that is more than double the old capacity, else      *)
(* double (small slices; every multiple of the 16 bytes of a string up to  *)
(* 128 bytes is an allocation size class, so nothing is rounded)           *)
growslice(oldCap, newLen) == IF newLen > 2 * oldCap THEN newLen ELSE 2 * oldCap

(* append(s, fields...): in place when the capacity allows, else into a    *)
(* new backing array *)
appendStrings(h, s, fields) ==
    LET newLen == s.len + Len(fields)
        Placed(old, c) ==
            [j \in 1..c |-> IF j <= s.len THEN old[j]
                            ELSE IF j <= newLen THEN fields[j - s.len]
                            ELSE IF j <= Len(old) THEN old[j] ELSE ""]
    IN IF Len(fields) = 0 THEN [heap |-> h, slice |-> s]
       ELSE IF newLen <= s.cap
       THEN [heap |-> [h EXCEPT ![s.arr] = Placed(h[s.arr], s.cap)],
             slice |-> [s EXCEPT !.len = newLen]]
       ELSE [heap |-> Append(h, Placed(IF s.arr = 0 THEN <<>> ELSE SubSeq(h[s.arr], 1, s.len),
                                       growslice(s.cap, newLen))),
             slice |-> [arr |-> Len(h) + 1, len |-> newLen,
                        cap |-> growslice(s.cap, newLen)]]

(* Options{} *)
OptionsZero ==
    [skipValidation |-> FALSE, skipRequired |-> FALSE, unskipRequired |-> FALSE,
     allowEmptyFields |-> NilStrings, mergeFields |-> NilStrings, id |-> ""]

(* what an Options value holds: its flags, its id and the elements of its  *)
(* two slices *)
ViewOf(h, o) ==
    [o EXCEPT !.allowEmptyFields = Contents(h, @), !.mergeFields = Contents(h, @)]

(* the methods with a value receiver: o is a copy, the result is the copy  *)
(* with one field assigned *)
OptionsAllowEmptyFields(h, o, fields) ==
    [heap |-> appendStrings(h, o.allowEmptyFields, fields).heap,
     o |-> [o EXCEPT !.allowEmptyFields = appendStrings(h, o.allowEmptyFields, fields).slice]]

OptionsMergeFields(h, o, fields) ==
    [heap |-> appendStrings(h, o.mergeFields, fields).heap,
     o |-> [o EXCEPT !.mergeFields = appendStrings(h, o.mergeFields, fields).slice]]

OptionsCustomID(o, id) == [o EXCEPT !.id = id]

-----------------------------------------------------------------------------
(* The state machine.  last records the most recent call: of validate, its *)
(* arguments, the record before it and what it returned; of a              *)
(* registration, its arguments and the error it returned.                  *)

NoCall == [op |-> "none", status |-> "ok"]

(* no Options value has been built, and no []string allocated *)
NoOptions == [heap |-> <<>>, vals |-> <<>>]

(* no validate call is in flight *)
NoCalls == <<>>

(* a reflect panic is not recovered: the program ends *)
Crashed == last.status = "panic"

RECURSIVE HasMap(_)
HasMap(v) ==
    CASE v.kind = "map" -> Len(v.keys) > 1
      [] v.kind = "ptr" -> HasMap(v.elem)
      [] v.kind \in {"slice", "array"} -> \E i \in 1..Len(v.elems) : HasMap(v.elems[i])
      [] v.kind = "struct" -> \E i \in 1..Len(v.fields) : HasMap(v.fields[i].val)
      [] OTHER -> FALSE

(* the orders in which a range over the maps of d can run *)
MapOrders(d) == IF HasMap(d) THEN BOOLEAN ELSE {FALSE}

(* newValidator, and the record the caller holds *)
InitOver(records) ==
    /\ validations = builtInValidators
    /\ transformations = [n \in {} |-> NilFn]
    /\ data \in {PtrTo(r) : r \in records}
    /\ last = NoCall
    /\ built = NoOptions
    /\ calls = NoCalls

RegisterValidationOf(regs) ==
    \E reg \in regs :
        /\ ~Crashed
        /\ validations' =
              IF registerValidationErr(reg[1], reg[2]) = NoErr
              THEN MapPut(validations, reg[1], reg[2])
              ELSE validations
        /\ last' = [op |-> "registerValidation", status |-> "ok", name |-> reg[1],
                    fn |-> reg[2], err |-> registerValidationErr(reg[1], reg[2])]
        /\ UNCHANGED <<transformations, data, built, calls>>

RegisterValidation == RegisterValidationOf(ValidationRegs)

RegisterTransformationOf(regs) ==
    \E reg \in regs :
        /\ ~Crashed
        /\ transformations' =
              IF registerTransformationErr(reg[1], reg[2]) = NoErr
              THEN MapPut(transformations, reg[1], reg[2])
              ELSE transformations
        /\ last' = [op |-> "registerTransformation", status |-> "ok",
                    name |-> reg[1], fn |-> reg[2],
                    err |-> registerTransformationErr(reg[1], reg[2])]
        /\ UNCHANGED <<validations, data, built, calls>>

RegisterTransformation == RegisterTransformationOf(TransformationRegs)

(* Validate, Create or UpdateById up to the call of validator.validate *)
ValidateWith(ctxs) ==
    \E ctx \in ctxs, method \in Methods, options \in OptionChoices, rev \in MapOrders(data) :
        \E w \in {validatorValidate(ctx, data, parseOptions(method, options), rev)} :
           /\ ~Crashed
           /\ data' = w.value
           /\ last' = [op |-> "validate", status |-> w.status, ctx |-> ctx,
                       method |-> method,
                       options |-> options,
                       opts |-> parseOptions(method, options), before |-> data,
                       out |-> w.out, err |-> w.err, log |-> w.log]
           /\ UNCHANGED <<validations, transformations, built, calls>>

(* the callers of the tests pass context.Background() *)
Validate == ValidateWith({Background})

Next == RegisterValidation \/ RegisterTransformation \/ Validate

Init == InitOver(RuleRecords \cup ScenarioRecords)
Spec == Init /\ [][Next]_vars

InitRequired == InitOver(RequiredRecords)
SpecRequired == InitRequired /\ [][Next]_vars

InitOmit == InitOver(OmitRecords)
SpecOmit == InitOmit /\ [][Next]_vars

InitNested == InitOver(NestedRecords)
SpecNested == InitNested /\ [][Next]_vars

InitShape ==
    /\ validations = builtInValidators
    /\ transformations = [n \in {} |-> NilFn]
    /\ data \in ShapeInputs
    /\ last = NoCall
    /\ built = NoOptions
    /\ calls = NoCalls
SpecShape == InitShape /\ [][Next]_vars

InitBounds == InitOver(BoundRecords)
SpecBounds == InitBounds /\ [][Next]_vars

InitTime == InitOver(TimeRecords)
SpecTime == InitTime /\ [][Next]_vars

RegisterShadowValidation == RegisterValidationOf(ShadowValidationRegs)
RegisterShadowTransformation == RegisterTransformationOf(ShadowTransformationRegs)
NextRegistry == RegisterShadowValidation \/ RegisterShadowTransformation \/ Validate

InitRegistry == InitOver(RegistryRecords)
SpecRegistry == InitRegistry /\ [][NextRegistry]_vars

InitTags == InitOver(TagRecords)
SpecTags == InitTags /\ [][Next]_vars

InitConfig == InitOver(ConfigRecords)
SpecConfig == InitConfig /\ [][Next]_vars

InitSkip == InitOver(SkipRecords)
SpecSkip == InitSkip /\ [][Next]_vars

InitIgnore == InitOver(IgnoreRecords)
SpecIgnore == InitIgnore /\ [][Next]_vars

(* The caller building Options values.  built.vals lists the values made   *)
(* so far, each with what it held when it was made (made), the value it    *)
(* was derived from (base, 0 for NewOptions) and the paths the call gave   *)
(* (own, on field).                                                        *)
MaxOptions == 5
PathChoices == {<<"name">>, <<"age">>, <<"name", "age">>}
IdChoices == {"doc1"}

Made(h, o, base, field, own) ==
    [o |-> o, made |-> ViewOf(h, o), base |-> base, field |-> field, own |-> own]

Building == Len(built.vals) < MaxOptions

Derive(b, o, field, own) ==
    /\ built' = [built EXCEPT !.vals = Append(@, Made(built.heap, o, b, field, own))]
    /\ UNCHANGED <<validations, transformations, data, last, calls>>

DeriveOnHeap(b, r, field, own) ==
    /\ built' = [heap |-> r.heap,
                 vals |-> Append(built.vals, Made(r.heap, r.o, b, field, own))]
    /\ UNCHANGED <<validations, transformations, data, last, calls>>

CallNewOptions == Building /\ Derive(0, OptionsZero, "", <<>>)

CallSkipValidation ==
    \E b \in 1..Len(built.vals) :
        Building /\ Derive(b, SkipValidation(built.vals[b].o), "", <<>>)

CallSkipRequired ==
    \E b \in 1..Len(built.vals) :
        Building /\ Derive(b, SkipRequired(built.vals[b].o), "", <<>>)

CallUnskipRequired ==
    \E b \in 1..Len(built.vals) :
        Building /\ Derive(b, UnskipRequired(built.vals[b].o), "", <<>>)

CallAllowEmptyFields ==
    \E b \in 1..Len(built.vals), fields \in PathChoices :
        Building /\ DeriveOnHeap(b, OptionsAllowEmptyFields(built.heap, built.vals[b].o, fields),
                                 "allowEmptyFields", fields)

CallMergeFields ==
    \E b \in 1..Len(built.vals), fields \in PathChoices :
        Building /\ DeriveOnHeap(b, OptionsMergeFields(built.heap, built.vals[b].o, fields),
                                 "mergeFields", fields)

CallCustomID ==
    \E b \in 1..Len(built.vals), id \in IdChoices :
        Building /\ Derive(b, OptionsCustomID(built.vals[b].o, id), "", <<>>)

NextOptions ==
    \/ CallNewOptions \/ CallSkipValidation \/ CallSkipRequired
    \/ CallUnskipRequired \/ CallAllowEmptyFields \/ CallMergeFields \/ CallCustomID

InitOptions == InitOver({Person("John Doe", 30, "john@x.com")})
SpecOptions == InitOptions /\ [][NextOptions]_vars

(* Concurrent validate calls: NumCalls goroutines, each with a record of   *)
(* its own, all on one validator.  A call advances one iteration of the    *)
(* loop of validateFields at a time, and the iterations of different       *)
(* calls interleave.  calls[p] holds the call's arguments, its record, the *)
(* loop's locals (i, dataMap), the functions invoked so far and, once it   *)
(* has returned, what it returned; alone is what validate gives for the    *)
(* same arguments when nothing else runs, and met says that the call ran   *)
(* while another was running.                                              *)
NumCalls == 2
ConcurrentRecords ==
    {CustomStruct("custom", "test"), CustomStruct("test", "test")}
ConcurrentValidationRegs ==
    {<<"custom", "fnCustom">>, <<"custom", "fnErr">>, <<"custom", "fnCtx">>}
ConcurrentTransformationRegs == {<<"uppercase", "fnUpper">>}
ConcurrentMethods == {create}
Contexts == {Background, Cancelled}

IdleCall(record) == [pc |-> "idle", data |-> PtrTo(record)]

Running(p) == calls[p].pc = "running"

(* nothing registers while registering is not allowed *)
RegistryUnguarded == TRUE

(* the registry is not mutated while a call runs *)
RegistryQuiet == \A p \in DOMAIN calls : ~Running(p)

RegisterQuietValidation ==
    RegistryQuiet /\ RegisterValidationOf(ConcurrentValidationRegs)

RegisterQuietTransformation ==
    RegistryQuiet /\ RegisterTransformationOf(ConcurrentTransformationRegs)

(* one iteration of the loop of validateFields on the record rs *)
iteration(ctx, rs, i, opts, dataMap, log) ==
    validateFieldsFrom(ctx, [rs EXCEPT !.fields = SubSeq(@, 1, i)], i, "", opts,
                       TRUE, FALSE, dataMap, log)

(* validate up to the loop: the checks on data, and the loop's locals *)
Begin(p) ==
    \E ctx \in Contexts, method \in ConcurrentMethods :
        /\ calls[p].pc = "idle"
        /\ calls' =
             [q \in DOMAIN calls |->
                IF q = p
                THEN [pc |-> "running", ctx |-> ctx,
                      opts |-> parseOptions(method, <<>>),
                      data |-> calls[p].data, i |-> 1, dataMap |-> EmptyMap,
                      log |-> <<>>,
                      alone |-> validatorValidate(ctx, calls[p].data,
                                                  parseOptions(method, <<>>), FALSE),
                      met |-> \E r \in DOMAIN calls : Running(r)]
                ELSE IF Running(q) THEN [calls[q] EXCEPT !.met = TRUE]
                ELSE calls[q]]
        /\ UNCHANGED <<validations, transformations, data, last, built>>

(* what the call p has become once the walk w of its iteration is done *)
Stepped(c, w) ==
    LET rs == [c.data.elem EXCEPT !.fields[c.i] = w.value.fields[c.i]]
    IN IF w.status = "ok"
       THEN [c EXCEPT !.i = @ + 1, !.data = PtrTo(rs), !.dataMap = w.out.m,
                      !.log = w.log]
       ELSE [pc |-> "done", ctx |-> c.ctx, opts |-> c.opts, data |-> PtrTo(rs),
             alone |-> c.alone, met |-> c.met,
             status |-> w.status, out |-> NilDoc, err |-> w.err, log |-> w.log]

Step(p) ==
    /\ Running(p)
    /\ calls[p].i <= Len(calls[p].data.elem.fields)
    /\ calls' = [calls EXCEPT ![p] =
                    Stepped(@, iteration(@.ctx, @.data.elem, @.i, @.opts, @.dataMap, @.log))]
    /\ UNCHANGED <<validations, transformations, data, last, built>>

(* the loop is over: validate returns the document *)
Return(p) ==
    /\ Running(p)
    /\ calls[p].i > Len(calls[p].data.elem.fields)
    /\ calls' = [calls EXCEPT ![p] =
                    [pc |-> "done", ctx |-> @.ctx, opts |-> @.opts, data |-> @.data,
                     alone |-> @.alone, met |-> @.met,
                     status |-> "ok", out |-> DocOf(@.dataMap), err |-> NoErr,
                     log |-> @.log]]
    /\ UNCHANGED <<validations, transformations, data, last, built>>

BeginCall == \E p \in DOMAIN calls : Begin(p)
StepCall == \E p \in DOMAIN calls : Step(p)
ReturnCall == \E p \in DOMAIN calls : Return(p)

NextConcurrent ==
    \/ RegisterQuietValidation \/ RegisterQuietTransformation
    \/ BeginCall \/ StepCall \/ ReturnCall

InitConcurrent ==
    /\ validations = builtInValidators
    /\ transformations = [n \in {} |-> NilFn]
    /\ data = PtrTo(Person("John Doe", 30, "john@x.com"))
    /\ last = NoCall
    /\ built = NoOptions
    /\ calls \in [1..NumCalls -> {IdleCall(r) : r \in ConcurrentRecords}]
SpecConcurrent == InitConcurrent /\ [][NextConcurrent]_vars

InitEmpty == InitOver(EmptyRecords)
SpecEmpty == InitEmpty /\ [][Next]_vars

InitUnsupported == InitOver(UnsupportedRecords)
SpecUnsupported == InitUnsupported /\ [][Next]_vars

InitOrder == InitOver(OrderRecords)
SpecOrder == InitOrder /\ [][Next]_vars

InitPaths == InitOver(PathRecords)
SpecPaths == InitPaths /\ [][Next]_vars

InitPrecedence == InitOver(PrecedenceRecords)
SpecPrecedence == InitPrecedence /\ [][Next]_vars

InitWriteBack == InitOver(WriteBackRecords)
SpecWriteBack == InitWriteBack /\ [][Next]_vars

(* Calls under a context that may be cancelled, with functions that fail   *)
(* and functions that read the context                                     *)
ContextValidationRegs ==
    {<<"custom", "fnCustom">>, <<"custom", "fnErr">>, <<"custom", "fnCtx">>}
ContextTransformationRegs == {<<"uppercase", "fnUpper">>, <<"uppercase", "fnTransErr">>}

RegisterContextValidation == RegisterValidationOf(ContextValidationRegs)
RegisterContextTransformation == RegisterTransformationOf(ContextTransformationRegs)
ValidateInContext == ValidateWith(Contexts)

NextContext ==
    RegisterContextValidation \/ RegisterContextTransformation \/ ValidateInContext

InitContext == InitOver(ContextRecords)
SpecContext == InitContext /\ [][NextContext]_vars

-----------------------------------------------------------------------------
(* Properties of a call, read off last: the record before the call, the   *)
(* options, and what the call returned.                                    *)

IsCall == last.op = "validate"
Root == last.before.elem
FirstField == Root.fields[1]

(* the value rules are applied to: the pointee of a non-nil pointer *)
Effective(v) == IF v.kind = "ptr" /\ ~v.isNil THEN v.elem ELSE v

(* the zero value of v's type; a value is zero-equivalent when it is that *)
RECURSIVE ZeroValue(_)
ZeroValue(v) ==
    CASE v.kind = "string" -> S("")
      [] v.kind = "int" -> I(0)
      [] v.kind = "uint" -> U(0)
      [] v.kind = "bool" -> B(FALSE)
      [] v.kind = "array" ->
            [v EXCEPT !.elems = [i \in 1..Len(v.elems) |-> ZeroValue(v.elems[i])]]
      [] v.kind = "ptr" -> NilPtr(ZeroValue(v.elem))
      [] v.kind = "slice" -> NilSlice(v.et)
      [] v.kind = "map" -> NilMap(v.et)
      [] v.kind = "struct" /\ v.typ = "time.Time" -> Time(0)
      [] v.kind = "struct" /\ v.typ # "time.Time" ->
            [v EXCEPT !.fields =
                [i \in 1..Len(v.fields) |->
                    [v.fields[i] EXCEPT !.val = ZeroValue(v.fields[i].val)]]]
      [] OTHER -> v

ZeroEquivalent(v) == v = ZeroValue(v)

IsFieldError(code) ==
    last.status = "err" /\ last.err.type = "fieldError" /\ last.err.code = code

RequiredFailed == IsFieldError("failed-validation") /\ last.err.tag = "required"

ReturnedDoc == last.status = "ok" /\ last.out.kind = "doc" /\ last.err = NoErr
ReturnedError == last.status = "err" /\ last.out = NilDoc /\ last.err # NoErr

(* the tokens of a tag after the name slot, as written *)
TokensOf(tag) == LET rules == parseTag(tag) IN [i \in 1..(Len(rules) - 1) |-> Join(rules[i + 1])]

(* the tag carries the general omission directive or the one of the method *)
HasDirective(tag, method) ==
    \E i \in 1..Len(TokensOf(tag)) :
        TokensOf(tag)[i] \in {"omitempty", "omitempty_" \o method}

AllowListed(path) == Contains(last.opts.emptyFieldsAllowed, path)

(* C1: every call ends with a document and no error, or with no document  *)
(* and an error; there is no third outcome.                                *)
C1_TwoOutcomes == IsCall => (ReturnedDoc \/ ReturnedError)

(* C2: under create, with validation not skipped, a field carrying         *)
(* required makes the call fail with failed-validation on required exactly *)
(* when its effective value is zero-equivalent; when it is not, the call   *)
(* returns a document holding the field.                                   *)
C2_Required ==
    (IsCall /\ last.method = create /\ ~last.opts.skipValidation) =>
        /\ RequiredFailed <=> ZeroEquivalent(Effective(FirstField.val))
        /\ RequiredFailed => ReturnedError
        /\ ~ZeroEquivalent(Effective(FirstField.val)) =>
                ReturnedDoc /\ Cardinality(DOMAIN last.out.m) = 1

C2_Witness ==
    /\ IsCall /\ last.method = create /\ last.options = <<>>
    /\ FirstField.val = PtrTo(S(""))
    /\ RequiredFailed

(* C3: under update and validate required is skipped unless the caller    *)
(* un-skipped it: the call fails on required exactly when required is not  *)
(* skipped and the field is empty.                                         *)
C3_SkippedOnUpdate ==
    (IsCall /\ last.method \in {update, validate} /\ ~last.opts.skipValidation) =>
        (RequiredFailed <=>
            (~last.opts.skipRequired /\ ZeroEquivalent(Effective(FirstField.val))))

(* the tag of a field with its omission directives taken out *)
RECURSIVE WithoutDirectives(_)
WithoutDirectives(tag) ==
    LET i == IndexOf(tag, ",", 1)
        rest == IF i = 0 THEN <<>> ELSE WithoutDirectives(SubSeq(tag, i + 1, Len(tag)))
        first == IF i = 0 THEN tag ELSE SubSeq(tag, 1, i - 1)
        isDirective ==
            Join(TrimSpace(first)) \in
                {"omitempty", "omitempty_create", "omitempty_update", "omitempty_validate"}
    IN IF i = 0 THEN (IF isDirective THEN <<>> ELSE first)
       ELSE IF isDirective THEN rest
       ELSE IF rest = <<>> THEN first
       ELSE first \o <<",">> \o rest

(* the first field is empty and carries a directive that applies *)
OmitCase ==
    /\ IsCall
    /\ HasDirective(FirstField.tag, last.method)
    /\ ZeroEquivalent(FirstField.val)

(* what the same call returns for the same record without the directives *)
PlainCall ==
    validatorValidate(last.ctx, 
        PtrTo([Root EXCEPT !.fields[1].tag = WithoutDirectives(FirstField.tag)]),
        last.opts, FALSE)

C4_Omitted ==
    (OmitCase /\ ~AllowListed("name")) =>
        /\ ReturnedDoc
        /\ last.out = DocOf(EmptyMap)
        /\ last.log = <<>>

C4_AllowListed ==
    (OmitCase /\ AllowListed("name")) =>
        /\ last.status = PlainCall.status
        /\ last.out = PlainCall.out
        /\ last.err = PlainCall.err
        /\ last.log = PlainCall.log
        /\ last.status = "ok" =>
                /\ DOMAIN last.out.m = {"name"}
                /\ last.out.m["name"] =
                        IF FirstField.val.kind = "slice" THEN ListOf(<<>>)
                        ELSE FirstField.val

C4_Repeated ==
    (OmitCase /\ last'.op = "validate" /\ last'.method = last.method
              /\ last'.options = last.options) =>
        /\ last'.before = last.before
        /\ last'.status = last.status
        /\ last'.out = last.out
        /\ last'.err = last.err

(* C4: an empty field with an applicable omission directive is left out of *)
(* the document and none of its rules is invoked, unless its path is       *)
(* allow-listed: then the call does what it does for the same field        *)
(* without the directive, and a successful call holds the empty value.     *)
(* Repeating the call gives the same result.                               *)
C4_Omission == [](C4_Omitted /\ C4_AllowListed) /\ [][C4_Repeated]_vars

C4_Witness ==
    /\ OmitCase /\ AllowListed("name")
    /\ FirstField.tag = T_OmitMin /\ FirstField.val = S("")
    /\ ReturnedDoc /\ last.out.m["name"] = S("")

(* C5: an empty field carrying only the update-scoped omission directive   *)
(* is omitted exactly under update and validate, and the directive is      *)
(* never dispatched as a rule.                                             *)
C5_UpdateScoped ==
    (IsCall /\ FirstField.tag = T_OmitUpdate /\ ZeroEquivalent(FirstField.val)
            /\ ~AllowListed("name")) =>
        /\ ReturnedDoc
        /\ last.log = <<>>
        /\ (last.method \in {update, validate}) <=> (last.out = DocOf(EmptyMap))

(* the tokens of a tag that are rules, as atoms, in tag order *)
RuleTokens(tag) ==
    SelectSeq(Tail(parseTag(tag)),
              LAMBDA t : Join(t) \notin {"omitempty", "omitempty_create",
                                         "omitempty_update", "omitempty_validate"})

TokenIsTransform(tok) == Len(tok) >= 2 /\ tok[1] = "transform" /\ tok[2] = "="

(* the name a token is looked up under, and the text after its first "=" *)
TokenName(tok) ==
    LET i == IndexOf(tok, "=", 1)
    IN IF i = 0 THEN Join(tok)
       ELSE IF TokenIsTransform(tok) THEN Join(SubSeq(tok, 3, Len(tok)))
       ELSE Join(SubSeq(tok, 1, i - 1))

TokenParam(tok) ==
    LET i == IndexOf(tok, "=", 1)
    IN IF i = 0 THEN "" ELSE Join(SubSeq(tok, i + 1, Len(tok)))

ResolvedName(f) ==
    IF Join(parseTag(f.tag)[1]) = "" THEN f.name ELSE Join(parseTag(f.tag)[1])

(* the invocations of the call made for the field at path, in order *)
LogAt(path) == SelectSeq(last.log, LAMBDA e : e.path = path)

(* the value an invocation leaves for the next rule *)
ValueAfter(e) ==
    IF e.call = "transformation" /\ e.ret.err = NoErr /\ ~e.ret.isNil
    THEN e.ret.val
    ELSE e.value

Transformed(L) == \E j \in 1..Len(L) : ValueAfter(L[j]) # L[j].value

C6_Field(i) ==
    LET f == Root.fields[i]
        toks == RuleTokens(f.tag)
        L == LogAt(ResolvedName(f))
    IN ~ZeroEquivalent(Effective(f.val)) =>
        /\ Len(L) <= Len(toks)
        /\ \A j \in 1..Len(L) :
              /\ L[j].rule = TokenName(toks[j])
              /\ L[j].call = (IF TokenIsTransform(toks[j]) THEN "transformation"
                                                           ELSE "validation")
              /\ L[j].value = (IF j = 1 THEN Effective(f.val) ELSE ValueAfter(L[j - 1]))
        /\ (ReturnedDoc /\ ~last.opts.skipValidation) => Len(L) = Len(toks)
        /\ (ReturnedDoc /\ Transformed(L)) =>
              /\ last.out.m[ResolvedName(f)] = ValueAfter(L[Len(L)])
              /\ data.elem.fields[i].val = ValueAfter(L[Len(L)])

(* C6: the rules of a field are invoked in tag order; the first is given   *)
(* the field's value, each later one the value the one before it left: the *)
(* value a transformation returned, else the value it was given.  After a  *)
(* successful call the document and the caller's record hold the           *)
(* transformed value.                                                      *)
C6_TagOrder ==
    IsCall => \A i \in 1..Len(Root.fields) : C6_Field(i)

C6_Witness ==
    /\ IsCall /\ Root = Leaf(T_CustomUpperMin, S("custom"))
    /\ ReturnedDoc
    /\ Len(last.log) = 3
    /\ last.log[1].value = S("custom") /\ last.log[3].value = S("CUSTOM")
    /\ last.out.m["name"] = S("CUSTOM")
    /\ data.elem.fields[1].val = S("CUSTOM")

(* The fields the walk visits in v, at any depth: tagged, not ignored, not *)
(* omitted; with the path, the resolved name and the native identifier.    *)
RECURSIVE VisitedIn(_, _)
RECURSIVE VisitedAt(_, _)
VisitedIn(v, path) ==
    CASE v.kind = "struct" /\ v.typ # "time.Time" ->
            UNION {VisitedAt(v.fields[i], path) : i \in 1..Len(v.fields)}
      [] v.kind = "slice" ->
            UNION {VisitedIn(v.elems[i], path \o "[" \o IndexText(i) \o "]")
                      : i \in 1..Len(v.elems)}
      [] v.kind = "map" ->
            UNION {VisitedIn(v.vals[k], path \o "." \o k) : k \in DOMAIN v.vals}
      [] OTHER -> {}

VisitedAt(f, path) ==
    LET p == IF path = "" THEN ResolvedName(f) ELSE path \o "." \o ResolvedName(f)
    IN IF f.tag = <<>> \/ f.tag = <<"-">> THEN {}
       ELSE IF HasDirective(f.tag, last.method) /\ ZeroEquivalent(f.val)
               /\ ~AllowListed(p)
       THEN {}
       ELSE {[path |-> p, field |-> ResolvedName(f), structField |-> f.name,
              tag |-> f.tag, val |-> f.val]}
            \cup VisitedIn(Effective(f.val), p)

Visited == VisitedIn(Root, "")

(* invocation e is a validation that returned (false, nil) *)
ReturnedFalse(e) == e.call = "validation" /\ e.ret = [ok |-> FALSE, err |-> NoErr]

(* the Field Error is the one of token tok of field F failing on value *)
IsErrorOf(F, tok, code, value) ==
    /\ ReturnedError
    /\ last.err.type = "fieldError"
    /\ last.err.code = code
    /\ last.err.tag = Join(tok)
    /\ last.err.field = F.field
    /\ last.err.structField = F.structField
    /\ last.err.param = TokenParam(tok)
    /\ last.err.value = value
    /\ ErrorString(last.err) =
          "firevault: field validation for '" \o F.field \o "' failed on the '"
              \o Join(tok) \o "' tag"

(* C8: when a validation returns (false, nil) the call ends there with the *)
(* Field Error failed-validation whose tag is the token as written, whose  *)
(* field is the resolved name, whose structField is the native identifier, *)
(* whose param is the text after the first "=" and whose value is the      *)
(* value the validation was given; its string form names field and tag.    *)
(* An Email of "not-an-email" tagged email fails on the tag email.         *)
C8_FailedValidation ==
    IsCall =>
        /\ \A j \in 1..Len(last.log) :
              ReturnedFalse(last.log[j]) =>
                 /\ j = Len(last.log)
                 /\ \E F \in Visited :
                       /\ F.path = last.log[j].path
                       /\ \E k \in 1..Len(RuleTokens(F.tag)) :
                             /\ TokenName(RuleTokens(F.tag)[k]) = last.log[j].rule
                             /\ IsErrorOf(F, RuleTokens(F.tag)[k], "failed-validation",
                                          last.log[j].value)
        /\ (Root = Person("John Doe", 30, "not-an-email") /\ ~last.opts.skipValidation) =>
              /\ IsFieldError("failed-validation")
              /\ last.err.tag = "email" /\ last.err.field = "email"
              /\ last.err.structField = "Email" /\ last.err.value = S("not-an-email")

C8_Witness ==
    /\ IsCall /\ Root.typ = "TestStruct"
    /\ IsFieldError("failed-validation")
    /\ last.err.tag = "min=3" /\ last.err.param = "3"
    /\ last.err.field = "name" /\ last.err.structField = "Name"
    /\ last.err.value = S("Jo")

(* C9 as stated: the record {Name: "Jo", Age: 30, Email: "john@x.com"}      *)
(* whose Name carries min=3 fails under create with failed-validation, tag *)
(* min and field Name.                                                     *)
C9_TagMin ==
    (IsCall /\ Root = Person("Jo", 30, "john@x.com") /\ last.method = create
            /\ ~last.opts.skipValidation) =>
        /\ IsFieldError("failed-validation")
        /\ last.err.tag = "min" /\ last.err.field = "Name"

(* C9: that record fails under create with failed-validation, tag min=3    *)
(* (the token as written), param 3 and field Name; the field is the name   *)
(* slot where the tag has one (name for TestStruct).                       *)
C9_TagMinParam ==
    (IsCall /\ last.method = create /\ ~last.opts.skipValidation) =>
        /\ Root = Person("Jo", 30, "john@x.com") =>
              /\ IsFieldError("failed-validation") /\ ReturnedError
              /\ last.err.tag = "min=3" /\ last.err.param = "3"
              /\ last.err.field = "Name" /\ last.err.structField = "Name"
        /\ (Root.typ = "TestStruct" /\ FirstField.val = S("Jo")) =>
              /\ IsFieldError("failed-validation") /\ ReturnedError
              /\ last.err.tag = "min=3" /\ last.err.param = "3"
              /\ last.err.field = "name" /\ last.err.structField = "Name"

C9_Witness ==
    /\ IsCall /\ Root = Person("Jo", 30, "john@x.com")
    /\ last.method = create /\ last.options = <<>>
    /\ IsFieldError("failed-validation") /\ last.err.tag = "min=3"

(* token k of field F names a validation that is not registered *)
IsUnknown(F, k) ==
    /\ ~TokenIsTransform(RuleTokens(F.tag)[k])
    /\ TokenName(RuleTokens(F.tag)[k]) \notin DOMAIN validations

HasUnknown(F) == \E k \in 1..Len(RuleTokens(F.tag)) : IsUnknown(F, k)

FirstUnknown(F) ==
    CHOOSE k \in 1..Len(RuleTokens(F.tag)) :
        IsUnknown(F, k) /\ \A j \in 1..(k - 1) : ~IsUnknown(F, j)

(* C7 as stated: an unknown validation token in any visited field makes    *)
(* the call return unknown-validation and no document, whatever the value. *)
C7_AnyUnknown ==
    (IsCall /\ ~last.opts.skipValidation /\ \E F \in Visited : HasUnknown(F)) =>
        IsFieldError("unknown-validation") /\ ReturnedError

(* a call that returns a document has met no unknown validation on a       *)
(* non-empty value                                                         *)
C7_NoDocument ==
    (IsCall /\ ~last.opts.skipValidation /\ ReturnedDoc) =>
        \A F \in Visited :
            \A k \in 1..Len(RuleTokens(F.tag)) :
                (IsUnknown(F, k)
                    /\ \A j \in 1..(k - 1) : ~TokenIsTransform(RuleTokens(F.tag)[j]))
                => ZeroEquivalent(Effective(F.val))

(* dispatch has reached the first unknown token of F: F is the only field  *)
(* with rules, every field is of a supported kind, the tokens before it    *)
(* were invoked and passed, and the value is not empty                     *)
Reached(F) ==
    LET u == FirstUnknown(F)
        L == LogAt(F.path)
    IN /\ \A G \in Visited : RuleTokens(G.tag) # <<>> => G = F
       /\ \A G \in Visited : G.val.kind \notin {"invalid", "chan", "func"}
       /\ Len(L) = u - 1
       /\ \A j \in 1..Len(L) : L[j].ret.err = NoErr /\ ~ReturnedFalse(L[j])
       /\ ~ZeroEquivalent(IF u = 1 THEN Effective(F.val) ELSE ValueAfter(L[u - 1]))

C7_Dispatched ==
    (IsCall /\ ~last.opts.skipValidation) =>
        \A F \in Visited :
            (HasUnknown(F) /\ Reached(F)) =>
                IsErrorOf(F, RuleTokens(F.tag)[FirstUnknown(F)], "unknown-validation",
                          IF FirstUnknown(F) = 1 THEN Effective(F.val)
                          ELSE ValueAfter(LogAt(F.path)[FirstUnknown(F) - 1]))

(* C7: with validation not skipped, a token naming an unregistered         *)
(* validation that dispatch reaches on a non-empty value, in a visited     *)
(* field at any depth, makes the call return unknown-validation for that   *)
(* token and no document; and no call returns a document past such a       *)
(* token.  On an empty value the token is skipped without being looked up. *)
C7_UnknownReached == C7_NoDocument /\ C7_Dispatched

C7_Witness ==
    /\ IsCall /\ Root = Outer("Inner", <<"inner">>, PtrTo(Leaf(T_Unknown, S("Jo"))))
    /\ IsFieldError("unknown-validation")
    /\ last.err.tag = "unknown" /\ last.err.field = "name"
    /\ last.out = NilDoc

(* the walk of the struct v at path, with the options of the call *)
NestedWalk(v, path) == validateFields(last.ctx, v, path, last.opts, TRUE, FALSE)

ElementPath(path, i) == path \o "[" \o IndexText(i) \o "]"

(* the struct elements of the slice v whose walk does not succeed *)
FailingElements(v, path) ==
    {i \in 1..Len(v.elems) :
        v.elems[i].kind = "struct"
            /\ NestedWalk(v.elems[i], ElementPath(path, i)).status # "ok"}

(* the names under which the fields of the struct v at path are visited *)
KeysOf(v, path) ==
    {ResolvedName(v.fields[i]) :
        i \in {j \in 1..Len(v.fields) : VisitedAt(v.fields[j], path) # {}}}

(* the first field carries no rules and its value is of a supported kind *)
PlainFirstField ==
    /\ IsCall
    /\ VisitedAt(FirstField, "") # {}
    /\ RuleTokens(FirstField.tag) = <<>>
    /\ FirstField.val.kind \notin {"invalid", "chan", "func"}

C10_Struct ==
    LET v == Effective(FirstField.val)
        n == ResolvedName(FirstField)
    IN (PlainFirstField /\ v.kind = "struct" /\ v.typ # "time.Time") =>
          /\ NestedWalk(v, n).status = "ok" =>
                /\ ReturnedDoc
                /\ DOMAIN last.out.m = {n}
                /\ last.out.m[n] = NestedWalk(v, n).out
                /\ last.out.m[n].kind = "doc"
                /\ DOMAIN last.out.m[n].m = KeysOf(v, n)
          /\ NestedWalk(v, n).status = "err" =>
                ReturnedError /\ last.err = NestedWalk(v, n).err

C10_Slice ==
    LET v == Effective(FirstField.val)
        n == ResolvedName(FirstField)
        fails == FailingElements(v, n)
        first == CHOOSE i \in fails : \A j \in fails : i <= j
    IN (PlainFirstField /\ v.kind = "slice") =>
          /\ fails = {} =>
                /\ ReturnedDoc
                /\ last.out.m[n].kind = "list"
                /\ Len(last.out.m[n].elems) = Len(v.elems)
                /\ \A i \in 1..Len(v.elems) :
                      last.out.m[n].elems[i] =
                          IF v.elems[i].kind = "struct"
                          THEN NestedWalk(v.elems[i], ElementPath(n, i)).out
                          ELSE v.elems[i]
          /\ fails # {} =>
                /\ ReturnedError
                /\ last.err = NestedWalk(v.elems[first], ElementPath(n, first)).err

Untagged(v) == {i \in 1..Len(v.fields) : v.fields[i].tag \in {<<>>, <<"-">>}}

(* v with the value of every such field, at any depth, replaced by false *)
RECURSIVE Blank(_)
Blank(v) ==
    IF v.kind = "struct" /\ v.typ # "time.Time"
    THEN [v EXCEPT !.fields =
            [i \in 1..Len(v.fields) |->
                [v.fields[i] EXCEPT !.val = IF i \in Untagged(v) THEN B(FALSE)
                                            ELSE Blank(v.fields[i].val)]]]
    ELSE v

BlankCall == validatorValidate(last.ctx, PtrTo(Blank(Root)), last.opts, FALSE)

C11_Absent ==
    (IsCall /\ ReturnedDoc) =>
        /\ DOMAIN last.out.m = KeysOf(Root, "")
        /\ \A i \in Untagged(Root) :
              /\ Root.fields[i].name \notin DOMAIN last.out.m
              /\ "-" \notin DOMAIN last.out.m
              /\ data.elem.fields[i] = Root.fields[i]
        /\ \A i \in (1..Len(Root.fields)) \ Untagged(Root) :
              (Root.fields[i].val.kind = "struct" /\ Root.fields[i].val.typ # "time.Time")
              => DOMAIN last.out.m[ResolvedName(Root.fields[i])].m =
                    KeysOf(Root.fields[i].val, ResolvedName(Root.fields[i]))

C11_NotInvoked ==
    IsCall =>
        /\ \A j \in 1..Len(last.log) : \E F \in Visited : F.path = last.log[j].path
        /\ last.status = BlankCall.status
        /\ last.out = BlankCall.out
        /\ last.err = BlankCall.err
        /\ last.log = BlankCall.log

C11_NoTaggedFields ==
    (IsCall /\ Untagged(Root) = 1..Len(Root.fields)) =>
        /\ ReturnedDoc
        /\ last.out = DocOf(EmptyMap)
        /\ last.log = <<>>
        /\ data = last.before

(* C11: a field with no tag or with the tag "-" is not in the document and *)
(* no function is invoked on it, whatever its value or kind: the call      *)
(* returns what it returns with any other value in that field.  A record   *)
(* whose fields are all such fields yields the empty document, no error,   *)
(* and is left as it was.                                                  *)
C11_Ignored == C11_Absent /\ C11_NotInvoked /\ C11_NoTaggedFields

C11_Witness ==
    /\ IsCall /\ Root = Mixed(T_Dash, Chan, T_Upper, "test")
    /\ ReturnedDoc
    /\ DOMAIN last.out.m = {"name"}
    /\ last.out.m["name"] = S("TEST")
    /\ Len(last.log) = 1

(* data is a non-nil pointer to a struct *)
IsStructPointer(d) == d.kind = "ptr" /\ ~d.isNil /\ d.elem.kind = "struct"

ShapeError == PlainError("firevault: data must be a pointer to a struct")

(* C12: when data is not a non-nil pointer to a struct - nil, a value that *)
(* is not a pointer, a nil pointer, a pointer to a non-struct - the call   *)
(* returns the plain shape error and no document, invokes no function and  *)
(* leaves data as it was; a pointer to a struct never gets that error.     *)
C12_Shape ==
    IsCall =>
        /\ ~IsStructPointer(last.before) =>
              /\ ReturnedError
              /\ last.err = ShapeError
              /\ last.err.type # "fieldError"
              /\ last.log = <<>>
              /\ data = last.before
        /\ IsStructPointer(last.before) => last.err # ShapeError

C12_Witness ==
    /\ IsCall /\ last.before = Leaf(T_Upper, S("test"))
    /\ "uppercase" \in DOMAIN transformations
    /\ ReturnedError /\ last.err = ShapeError
    /\ last.log = <<>> /\ data = Leaf(T_Upper, S("test"))

(* what min and max measure: the length of a string, slice, array or map,  *)
(* the number itself of an integer                                         *)
Measure(v) ==
    CASE v.kind = "string" -> Len(v.s)
      [] v.kind \in {"slice", "array"} -> Len(v.elems)
      [] v.kind = "map" -> Cardinality(DOMAIN v.vals)
      [] v.kind \in {"int", "uint"} -> v.n

(* the number a parameter is the numeral of *)
NumberOf(param) ==
    CASE param = <<"1">> -> 1 [] param = <<"2">> -> 2 [] param = <<"3">> -> 3
      [] param = <<"5">> -> 5 [] param = <<"18">> -> 18 [] param = <<"50">> -> 50
      [] param = <<"120">> -> 120

Measured(e) ==
    /\ e.call = "validation" /\ e.fn \in {"validateMin", "validateMax"}
    /\ e.value.kind \in {"string", "slice", "array", "map", "int", "uint"}

(* token tok of a tag holds of the value v *)
WithinBound(tok, v) ==
    CASE TokenName(tok) = "min" -> Measure(v) >= NumberOf(<<TokenParam(tok)>>)
      [] TokenName(tok) = "max" -> Measure(v) <= NumberOf(<<TokenParam(tok)>>)
      [] OTHER -> TRUE

C13_Functions ==
    IsCall =>
        \A j \in 1..Len(last.log) :
            Measured(last.log[j]) =>
                /\ last.log[j].ret.err = NoErr
                /\ last.log[j].fn = "validateMin" =>
                      (last.log[j].ret.ok <=>
                          Measure(last.log[j].value) >= NumberOf(last.log[j].param))
                /\ last.log[j].fn = "validateMax" =>
                      (last.log[j].ret.ok <=>
                          Measure(last.log[j].value) <= NumberOf(last.log[j].param))

C13_Calls ==
    (IsCall /\ ~last.opts.skipValidation /\ Root \in BoundRecords
            /\ ~ZeroEquivalent(FirstField.val)) =>
        /\ ReturnedDoc <=>
              \A k \in 1..Len(RuleTokens(FirstField.tag)) :
                  WithinBound(RuleTokens(FirstField.tag)[k], FirstField.val)
        /\ ~ReturnedDoc => IsFieldError("failed-validation")
        /\ (FirstField.tag = T_Min2Max2 /\ Measure(FirstField.val) = 2) => ReturnedDoc
        /\ (FirstField.tag = T_Min3Max3 /\ Measure(FirstField.val) = 3) => ReturnedDoc

(* C13: on a string, slice, array or map min=N returns true exactly when   *)
(* the length is at least N and max=N exactly when it is at most N; on a   *)
(* signed or unsigned integer the same holds of the number.  A field whose *)
(* rules are min and max is accepted exactly when every bound holds, so a  *)
(* value of length exactly N passes min=N and max=N.                       *)
C13_Inclusive == C13_Functions /\ C13_Calls

C13_Witness ==
    /\ IsCall /\ Root = Leaf(T_Min2Max2, S("Jo"))
    /\ ReturnedDoc
    /\ Len(last.log) = 2
    /\ last.log[1].fn = "validateMin" /\ last.log[1].ret.ok
    /\ last.log[2].fn = "validateMax" /\ last.log[2].ret.ok

(* the time a layout|value parameter names *)
ParamTime(param) ==
    CASE param = <<"2006", "|", "2001">> -> 2000
      [] param = <<"2006", "|", "2002">> -> 2001
      [] param = <<"2006", "|", "2003">> -> 2002

Parses(param) ==
    param \in {<<"2006", "|", "2001">>, <<"2006", "|", "2002">>, <<"2006", "|", "2003">>}

(* C14: on a time.Time value t and a parameter that parses to the time P,  *)
(* max returns true exactly when t is not after P and min exactly when t   *)
(* is not before P.                                                        *)
C14_TimeBounds ==
    IsCall =>
        \A j \in 1..Len(last.log) :
            (/\ last.log[j].call = "validation"
             /\ last.log[j].value.kind = "struct" /\ last.log[j].value.typ = "time.Time"
             /\ Parses(last.log[j].param)) =>
                /\ last.log[j].fn = "validateMax" =>
                      (last.log[j].ret.ok <=>
                          last.log[j].value.t <= ParamTime(last.log[j].param))
                /\ last.log[j].fn = "validateMin" =>
                      (last.log[j].ret.ok <=>
                          last.log[j].value.t >= ParamTime(last.log[j].param))

IsRegistration == last.op \in {"registerValidation", "registerTransformation"}

(* the call was given an empty name or the nil function *)
Misused == last.name = "" \/ last.fn = NilFn

(* a registration that has just been made, seen from the state before it *)
C15_Step ==
    (last'.op \in {"registerValidation", "registerTransformation"}
        /\ (last'.name = "" \/ last'.fn = NilFn)) =>
            /\ last'.err # NoErr
            /\ validations' = validations
            /\ transformations' = transformations

C15_State ==
    /\ IsRegistration => (Misused <=> last.err # NoErr)
    /\ (IsRegistration /\ Misused) => last.err.type = "error"
    /\ "" \notin DOMAIN validations
    /\ "" \notin DOMAIN transformations
    /\ \A n \in DOMAIN validations : validations[n] # NilFn
    /\ \A n \in DOMAIN transformations : transformations[n] # NilFn

(* C15: a registration with an empty name or the nil function returns an   *)
(* error and leaves both registries exactly as they were, so what was      *)
(* registered under the name stays and the empty name is never registered; *)
(* any other registration returns no error.                                *)
C15_Rejected == []C15_State /\ [][C15_Step]_vars

C15_Witness ==
    /\ last.op = "registerValidation" /\ last.name = "custom" /\ last.fn = NilFn
    /\ last.err # NoErr
    /\ "custom" \in DOMAIN validations /\ validations["custom"] = "fnCustom"
    /\ "uppercase" \in DOMAIN transformations

(* m2 is m with at most the entry under name added or replaced *)
OnlyChanges(m, m2, name) ==
    /\ DOMAIN m \subseteq DOMAIN m2
    /\ DOMAIN m2 \subseteq DOMAIN m \cup {name}
    /\ \A n \in DOMAIN m : n # name => m2[n] = m[n]

(* a successful registration is the entry of its name from then on; a     *)
(* dispatched token invoked the function registered under its name; a     *)
(* token is reported unknown only when its name is in no registry entry   *)
C16_State ==
    /\ DOMAIN builtInValidators \subseteq DOMAIN validations
    /\ (last.op = "registerValidation" /\ last.err = NoErr) =>
          validations[last.name] = last.fn
    /\ (last.op = "registerTransformation" /\ last.err = NoErr) =>
          transformations[last.name] = last.fn
    /\ IsCall =>
          /\ \A j \in 1..Len(last.log) :
                IF last.log[j].call = "validation"
                THEN /\ last.log[j].rule \in DOMAIN validations
                     /\ last.log[j].fn = validations[last.log[j].rule]
                ELSE /\ last.log[j].rule \in DOMAIN transformations
                     /\ last.log[j].fn = transformations[last.log[j].rule]
          /\ IsFieldError("unknown-validation") =>
                \E k \in 1..Len(RuleTokens(FirstField.tag)) :
                    /\ Join(RuleTokens(FirstField.tag)[k]) = last.err.tag
                    /\ TokenName(RuleTokens(FirstField.tag)[k]) \notin DOMAIN validations
          /\ IsFieldError("unknown-transformation") =>
                \E k \in 1..Len(RuleTokens(FirstField.tag)) :
                    /\ Join(RuleTokens(FirstField.tag)[k]) = last.err.tag
                    /\ TokenName(RuleTokens(FirstField.tag)[k]) \notin DOMAIN transformations

C16_Step ==
    /\ DOMAIN validations \subseteq DOMAIN validations'
    /\ DOMAIN transformations \subseteq DOMAIN transformations'
    /\ last'.op = "registerValidation" =>
          /\ transformations' = transformations
          /\ OnlyChanges(validations, validations', last'.name)
    /\ last'.op = "registerTransformation" =>
          /\ validations' = validations
          /\ OnlyChanges(transformations, transformations', last'.name)
    /\ last'.op = "validate" =>
          validations' = validations /\ transformations' = transformations

(* C16: the function dispatch finds under a name is the one of the most    *)
(* recent successful registration under it, the built-in where there was   *)
(* none: a successful registration sets the entry of its name, a built-in  *)
(* name included, and nothing else changes an entry; no name leaves a      *)
(* registry; a registration of one kind leaves the other registry alone.   *)
C16_LastWins == []C16_State /\ [][C16_Step]_vars

C16_Witness ==
    /\ IsCall /\ Root = Leaf(T_Min2, S("Jo")) /\ ~last.opts.skipValidation
    /\ validations["min"] = "fnCustom"
    /\ "min" \in DOMAIN transformations
    /\ Len(last.log) = 1 /\ last.log[1].rule = "min" /\ last.log[1].fn = "fnCustom"
    /\ IsFieldError("failed-validation") /\ last.err.tag = "min=2"

(* the segments of a tag joined again with commas *)
RECURSIVE JoinSegments(_)
JoinSegments(segs) ==
    IF Len(segs) = 1 THEN segs[1]
    ELSE segs[1] \o <<",">> \o JoinSegments(Tail(segs))

(* the tag without its empty segments, the one at position 0 kept *)
Compact(tag) ==
    LET segs == Split(tag, ",")
    IN JoinSegments(<<segs[1]>>
                    \o SelectSeq(Tail(segs), LAMBDA t : TrimSpace(t) # <<>>))

(* what the same call returns for the same record with the compact tag *)
CompactCall ==
    validatorValidate(last.ctx, PtrTo([Root EXCEPT !.fields[1].tag = Compact(FirstField.tag)]),
                      last.opts, FALSE)

(* C17: the parsed tag holds the trimmed segments in order, the one at     *)
(* position 0 even if empty and no other empty one; so a tag with a        *)
(* doubled or trailing comma is validated exactly like the tag without the *)
(* empty segment.                                                          *)
C17_EmptySegments ==
    IsCall =>
        /\ \A i \in 2..Len(parseTag(FirstField.tag)) : parseTag(FirstField.tag)[i] # <<>>
        /\ parseTag(FirstField.tag) = parseTag(Compact(FirstField.tag))
        /\ last.status = CompactCall.status
        /\ last.out = CompactCall.out
        /\ last.err = CompactCall.err
        /\ last.log = CompactCall.log

(* the first field carries one rule, min or max, which is dispatched: the  *)
(* value is not empty and validation is not skipped                        *)
BoundDispatched ==
    /\ IsCall /\ ~last.opts.skipValidation
    /\ Len(RuleTokens(FirstField.tag)) = 1
    /\ TokenName(RuleTokens(FirstField.tag)[1]) \in {"min", "max"}
    /\ ~ZeroEquivalent(Effective(FirstField.val))

BoundName == TokenName(RuleTokens(FirstField.tag)[1])
BoundParam == TokenParam(RuleTokens(FirstField.tag)[1])

(* the kinds min and max have no comparison for *)
Unbounded(v) == v.kind = "bool" \/ (v.kind = "struct" /\ v.typ # "time.Time")

PlainFailure == ReturnedError /\ last.err.type = "error" /\ last.out = NilDoc

C18_NoParam ==
    (BoundDispatched /\ BoundParam = "") =>
        /\ PlainFailure
        /\ last.err.msg = "firevault: provide a " \o BoundName \o " param - "
                              \o ResolvedName(FirstField)

C18_Kind ==
    (BoundDispatched /\ BoundParam # "" /\ Unbounded(Effective(FirstField.val))) =>
        /\ PlainFailure
        /\ last.err.msg = "firevault: invalid field type - " \o ResolvedName(FirstField)

C18_Otherwise ==
    (BoundDispatched /\ BoundParam # "" /\ ~Unbounded(Effective(FirstField.val))) =>
        (ReturnedDoc \/ IsFieldError("failed-validation"))

(* C18: min or max dispatched without a parameter, or on a bool or on a    *)
(* struct that is not a time, makes the call return a plain error - the    *)
(* one asking for the parameter, or the one naming the field type - and no *)
(* document; with a parameter and a supported kind the call returns a      *)
(* document or the Field Error failed-validation.                          *)
C18_Configuration == C18_NoParam /\ C18_Kind /\ C18_Otherwise

C18_Witness ==
    /\ BoundDispatched /\ Root = Leaf(T_Min2, PtrTo(B(TRUE)))
    /\ last.err = PlainError("firevault: invalid field type - name")
    /\ last.out = NilDoc
    /\ Len(last.log) = 1 /\ last.log[1].fn = "validateMin"

(* invocation e is a transformation that returned an error *)
TransformationFailed(e) == e.call = "transformation" /\ e.ret.err # NoErr

(* C19: when a transformation returns an error the call ends there with a  *)
(* Field Error failed-transformation that names the field and the          *)
(* transform=<name> token; a transform=<name> token reached with no        *)
(* transformation registered under the name gives the Field Error          *)
(* unknown-transformation.                                                 *)
C19_TransformErrors ==
    (IsCall /\ ~last.opts.skipValidation) =>
        /\ \A j \in 1..Len(last.log) :
              TransformationFailed(last.log[j]) =>
                 /\ j = Len(last.log)
                 /\ ReturnedError
                 /\ last.err.type = "fieldError"
                 /\ last.err.code = "failed-transformation"
                 /\ last.err.tag = "transform=" \o last.log[j].rule
                 /\ \E F \in Visited :
                       F.path = last.log[j].path /\ last.err.field = F.field
        /\ (FirstField.tag = T_Upper /\ ~ZeroEquivalent(FirstField.val)
                /\ "uppercase" \notin DOMAIN transformations) =>
              /\ IsFieldError("unknown-transformation")
              /\ last.err.tag = "transform=uppercase"
              /\ last.err.field = "name"
              /\ last.out = NilDoc

(* the tag of field f with its rules taken out: the name slot and the      *)
(* omission directives stay; an empty name slot is written out as the      *)
(* native identifier, an ignored field stays ignored                       *)
StripTag(f) ==
    LET segs == Split(f.tag, ",")
    IN IF f.tag \in {<<>>, <<"-">>} THEN f.tag
       ELSE
       JoinSegments(<<IF TrimSpace(segs[1]) = <<>> THEN <<f.name>> ELSE segs[1]>>
                    \o SelectSeq(Tail(segs),
                                 LAMBDA t : Join(TrimSpace(t)) \in
                                    {"omitempty", "omitempty_create", "omitempty_update",
                                     "omitempty_validate"}))

(* v with the rules taken out of every tag, at any depth *)
RECURSIVE StripRules(_)
StripRules(v) ==
    CASE v.kind = "struct" /\ v.typ # "time.Time" ->
            [v EXCEPT !.fields =
                [i \in 1..Len(v.fields) |->
                    [v.fields[i] EXCEPT !.tag = StripTag(v.fields[i]),
                                        !.val = StripRules(@)]]]
      [] v.kind = "ptr" /\ ~v.isNil -> [v EXCEPT !.elem = StripRules(@)]
      [] v.kind = "slice" -> [v EXCEPT !.elems = [i \in 1..Len(@) |-> StripRules(@[i])]]
      [] v.kind = "map" -> [v EXCEPT !.vals = [k \in DOMAIN @ |-> StripRules(@[k])]]
      [] OTHER -> v

(* the caller passed the skip-validation option *)
SkipPassed == IsCall /\ last.options # <<>> /\ last.options[1].skipValidation

(* what a call that does not skip returns for the record without rules *)
StrippedCall ==
    validatorValidate(last.ctx, PtrTo(StripRules(Root)),
                      [last.opts EXCEPT !.skipValidation = FALSE], FALSE)

(* C20: a call with the skip-validation option invokes no function at any  *)
(* depth and leaves the record as it was; it returns what a call without   *)
(* the option returns for the same record with the rules taken out of its  *)
(* tags, the names, the ignored fields and the omission directives kept.   *)
C20_SkipValidation ==
    SkipPassed =>
        /\ last.opts.skipValidation
        /\ last.log = <<>>
        /\ data = last.before
        /\ last.status # "panic"
        /\ last.status = StrippedCall.status
        /\ last.out = StrippedCall.out
        /\ last.err = StrippedCall.err
        /\ StrippedCall.log = <<>>

C20_Witness ==
    /\ SkipPassed
    /\ Root = Outer("Items", <<"items">>,
                    SliceOf("Leaf", <<Leaf(T_RequiredOnly, S("")), Leaf(T_Upper, S("test"))>>))
    /\ "uppercase" \in DOMAIN transformations
    /\ ReturnedDoc
    /\ last.out.m["items"] = ListOf(<<DocOf("Name" :> S("")), DocOf("name" :> S("test"))>>)

-----------------------------------------------------------------------------
(* C21: Options values are immutable: whatever builder calls are made on   *)
(* an Options value or on values derived from it, every value built so far *)
(* holds what it held when it was made.                                    *)
C21_Immutable ==
    \A k \in 1..Len(built.vals) :
        ViewOf(built.heap, built.vals[k].o) = built.vals[k].made

(* C21, the particular case: a value derived by AllowEmptyFields or        *)
(* MergeFields holds its base's paths followed by its own.                 *)
C21_BaseThenOwn ==
    \A k \in 1..Len(built.vals) :
        LET v == built.vals[k]
        IN v.field # "" =>
              ViewOf(built.heap, v.o)[v.field]
                 = built.vals[v.base].made[v.field] \o v.own

-----------------------------------------------------------------------------
(* C22: validate calls on distinct records that share a registry nothing   *)
(* mutates while they run: however their steps interleave, each call       *)
(* returns the document or error, leaves its record in the state, and      *)
(* invokes the functions, that the same call gives when it runs alone; a   *)
(* call that aborts changes nothing for the others.                        *)
Outcome(c) ==
    [status |-> c.status, out |-> c.out, err |-> c.err, value |-> c.data,
     log |-> c.log]

-----------------------------------------------------------------------------
(* C23: on a tagged, non-omitted field whose effective value is empty the  *)
(* only tokens dispatched are required and required_<m> for the call's     *)
(* method m, each of which fails with failed-validation; every other token *)
(* is skipped without any function being invoked.  So the call fails on    *)
(* the first required-class token of the tag, having invoked that token's  *)
(* function only, and with no such token it invokes nothing.               *)
RequiredClass(method) == {"required", "required_" \o method}

EmptyCase ==
    /\ IsCall /\ ~last.opts.skipValidation
    /\ ~HasDirective(FirstField.tag, last.method)
    /\ ~hasValue(Effective(FirstField.val))

FirstRequiredClass ==
    LET toks == SelectSeq(TokensOf(FirstField.tag),
                          LAMBDA t : t \in RequiredClass(last.method))
    IN IF toks = <<>> THEN "" ELSE toks[1]

C23_EmptyDispatch ==
    EmptyCase =>
        IF FirstRequiredClass = ""
        THEN last.log = <<>> /\ ReturnedDoc
        ELSE /\ Len(last.log) = 1
             /\ last.log[1].rule = FirstRequiredClass
             /\ last.log[1].fn = "validateRequired"
             /\ IsFieldError("failed-validation")
             /\ last.err.tag = FirstRequiredClass
             /\ ReturnedError

-----------------------------------------------------------------------------
(* C24: a tagged field whose underlying kind is channel, function or       *)
(* invalid, directly or as the pointee of a pointer, makes validate return *)
(* an error naming the field's path and no document, whether or not the    *)
(* field is empty and carries an omission directive.                       *)
RECURSIVE UnderlyingKind(_)
UnderlyingKind(v) == IF v.kind = "ptr" THEN UnderlyingKind(v.elem) ELSE v.kind

UnsupportedError(path) == PlainError("firevault: unsupported field type - " \o path)

C24_Unsupported ==
    (IsCall /\ UnderlyingKind(FirstField.val) \in {"chan", "func", "invalid"}) =>
        ReturnedError /\ last.err = UnsupportedError("name")

(* C24 for a field that has the kind itself *)
C24_Direct ==
    (IsCall /\ FirstField.val.kind \in {"chan", "func", "invalid"}) =>
        ReturnedError /\ last.err = UnsupportedError("name")

-----------------------------------------------------------------------------
(* C25: fields are processed in declaration order and depth first: a       *)
(* field's own rules, then what is nested in it, then the next sibling.    *)
(* When several fields would fail, the call returns the error of the first *)
(* of them in that order, and no function is invoked for a later field.    *)

(* the positions of the record that can carry rules, in declaration order, *)
(* each before what is nested in it                                        *)
RECURSIVE PathsOf(_, _)
RECURSIVE PathsOfFields(_, _, _)
RECURSIVE PathsOfElems(_, _, _)
RECURSIVE PathsOfKeys(_, _, _)
PathsOf(v, path) ==
    CASE v.kind = "struct" /\ v.typ # "time.Time" -> PathsOfFields(v, path, 1)
      [] v.kind = "slice" -> PathsOfElems(v, path, 1)
      [] v.kind = "map" -> PathsOfKeys(v, path, 1)
      [] OTHER -> <<>>

PathsOfFields(v, path, i) ==
    IF i > Len(v.fields) THEN <<>>
    ELSE LET f == v.fields[i]
             p == IF path = "" THEN ResolvedName(f) ELSE path \o "." \o ResolvedName(f)
         IN (IF f.tag = <<>> \/ f.tag = <<"-">> THEN <<>>
             ELSE <<p>> \o PathsOf(Effective(f.val), p))
            \o PathsOfFields(v, path, i + 1)

PathsOfElems(v, path, i) ==
    IF i > Len(v.elems) THEN <<>>
    ELSE PathsOf(v.elems[i], ElementPath(path, i)) \o PathsOfElems(v, path, i + 1)

PathsOfKeys(v, path, i) ==
    IF i > Len(v.keys) THEN <<>>
    ELSE PathsOf(v.vals[v.keys[i]], path \o "." \o v.keys[i]) \o PathsOfKeys(v, path, i + 1)

(* where path comes in that order *)
Rank(path) ==
    LET order == PathsOf(Root, "")
    IN IF \E n \in 1..Len(order) : order[n] = path
       THEN CHOOSE n \in 1..Len(order) :
                order[n] = path /\ \A m \in 1..(n - 1) : order[m] # path
       ELSE 0

(* the same call on a record that has field i of the record only *)
AloneCall(i) ==
    validatorValidate(last.ctx, PtrTo([Root EXCEPT !.fields = <<Root.fields[i]>>]),
                      last.opts, FALSE)

FailingAlone == {i \in 1..Len(Root.fields) : AloneCall(i).status = "err"}

FirstFailing == CHOOSE i \in FailingAlone : \A j \in FailingAlone : i <= j

(* what the fields 1..n invoke when each is walked alone, in order *)
RECURSIVE LogsUpTo(_)
LogsUpTo(n) == IF n = 0 THEN <<>> ELSE LogsUpTo(n - 1) \o AloneCall(n).log

C25_InOrder ==
    IsCall =>
        \A j, k \in 1..Len(last.log) :
            j < k => /\ Rank(last.log[j].path) > 0
                     /\ Rank(last.log[j].path) <= Rank(last.log[k].path)

C25_FirstFailure ==
    IsCall =>
        IF FailingAlone = {}
        THEN ReturnedDoc /\ last.log = LogsUpTo(Len(Root.fields))
        ELSE /\ ReturnedError
             /\ last.err = AloneCall(FirstFailing).err
             /\ last.log = LogsUpTo(FirstFailing)

C25_DeclarationOrder == C25_InOrder /\ C25_FirstFailure

(* two fields fail alone, the first of them after a field that invoked a   *)
(* function and passed: the call returns the first one's error             *)
C25_Witness ==
    /\ IsCall /\ ReturnedError
    /\ Cardinality(FailingAlone) >= 2
    /\ FirstFailing > 1
    /\ Len(last.log) >= 3
    /\ last.err = AloneCall(FirstFailing).err

-----------------------------------------------------------------------------
(* C26: the path given to every function is built top-down from the output *)
(* names of the enclosing fields joined by ".", with ".<key>" for a map     *)
(* entry and "[<index>]" for a slice element, starting with the output     *)
(* name of a field of the root record.  Two positions of one record get    *)
(* different paths when no output name and no map key contains a dot and   *)
(* no two sibling fields share an output name.                             *)
Range(seq) == {seq[i] : i \in 1..Len(seq)}

PathsGiven == [j \in 1..Len(last.log) |-> last.log[j].path]

(* every position was given to one function and passed *)
AllDispatched == IsCall /\ ~last.opts.skipValidation /\ ReturnedDoc

RECURSIVE SiblingsShareName(_)
SiblingsShareName(v) ==
    CASE v.kind = "struct" /\ v.typ # "time.Time" ->
            \/ \E i, j \in 1..Len(v.fields) :
                    i # j /\ ResolvedName(v.fields[i]) = ResolvedName(v.fields[j])
            \/ \E i \in 1..Len(v.fields) : SiblingsShareName(Effective(v.fields[i].val))
      [] v.kind = "slice" -> \E i \in 1..Len(v.elems) : SiblingsShareName(v.elems[i])
      [] v.kind = "map" -> \E k \in DOMAIN v.vals : SiblingsShareName(v.vals[k])
      [] OTHER -> FALSE

(* no output name and no map key of v contains a dot *)
PlainKeys == {"a", "b", "c"}

RECURSIVE DotFree(_)
DotFree(v) ==
    CASE v.kind = "struct" /\ v.typ # "time.Time" ->
            \A i \in 1..Len(v.fields) :
                /\ \A n \in 1..Len(parseTag(v.fields[i].tag)[1]) :
                        parseTag(v.fields[i].tag)[1][n] # "."
                /\ DotFree(Effective(v.fields[i].val))
      [] v.kind = "slice" -> \A i \in 1..Len(v.elems) : DotFree(v.elems[i])
      [] v.kind = "map" -> \A k \in DOMAIN v.vals : k \in PlainKeys /\ DotFree(v.vals[k])
      [] OTHER -> TRUE

C26_Built ==
    AllDispatched =>
        /\ Range(PathsGiven) = Range(PathsOf(Root, ""))
        /\ Len(PathsGiven) = Len(PathsOf(Root, ""))
        /\ ~HasMap(Root) => PathsGiven = PathsOf(Root, "")

C26_DistinctPlain ==
    (AllDispatched /\ DotFree(Root) /\ ~SiblingsShareName(Root)) =>
        \A j, k \in 1..Len(PathsGiven) : j # k => PathsGiven[j] # PathsGiven[k]

C26_Paths == C26_Built /\ C26_DistinctPlain

(* C26 as stated: distinct positions get distinct paths unless two sibling *)
(* fields share an output name.                                            *)
C26_Distinct ==
    (AllDispatched /\ ~SiblingsShareName(Root)) =>
        \A j, k \in 1..Len(PathsGiven) : j # k => PathsGiven[j] # PathsGiven[k]

(* a record with a nested struct, a slice and a map, every position of     *)
(* which was given its path                                                *)
C26_Witness ==
    /\ AllDispatched /\ DotFree(Root) /\ ~SiblingsShareName(Root)
    /\ {"title", "inner", "inner.name", "items", "items[0].name", "items[1].Name",
        "by_key", "by_key.a.Name", "by_key.b.Name"} = Range(PathsGiven)

-----------------------------------------------------------------------------
(* C27: for a field that is a non-nil pointer the rules are applied to the *)
(* pointee, and when a transformation returns a non-nil value of the       *)
(* pointee's type the call completes normally: the document holds the      *)
(* transformed value and the record's field reflects it after the call.    *)
PointerTransformed ==
    /\ IsCall
    /\ FirstField.val.kind = "ptr" /\ ~FirstField.val.isNil
    /\ FirstField.tag = T_Upper
    /\ Len(last.log) = 1
    /\ last.log[1].call = "transformation"
    /\ last.log[1].value = FirstField.val.elem
    /\ last.log[1].ret.err = NoErr /\ ~last.log[1].ret.isNil
    /\ TypeOf(last.log[1].ret.val) = TypeOf(FirstField.val.elem)

C27_PointerWriteBack ==
    PointerTransformed =>
        /\ ReturnedDoc
        /\ last.out.m[ResolvedName(FirstField)] = last.log[1].ret.val
        /\ Effective(data.elem.fields[1].val) = last.log[1].ret.val

-----------------------------------------------------------------------------
(* C28: the context given to validate is the one every validation and      *)
(* transformation function is given; and an error returned by a validation *)
(* function, a cancellation error included, ends the call at that rule and *)
(* is what the call returns, as it is and not as a Field Error, at any     *)
(* depth: no function is invoked after it.                                 *)
C28_SameContext ==
    IsCall => \A j \in 1..Len(last.log) : last.log[j].ctx = last.ctx

ValidationErred(e) == e.call = "validation" /\ e.ret.err # NoErr

C28_ErrorUnchanged ==
    IsCall =>
        \A j \in 1..Len(last.log) :
            ValidationErred(last.log[j]) =>
                /\ j = Len(last.log)
                /\ ReturnedError
                /\ last.err = last.log[j].ret.err
                /\ last.err.type = "error"

C28_Context == C28_SameContext /\ C28_ErrorUnchanged

(* a call under a cancelled context that a function of a slice element's   *)
(* field reported, after two functions of earlier fields had run           *)
C28_Witness ==
    /\ IsCall /\ last.ctx = Cancelled
    /\ Len(last.log) = 3
    /\ last.log[3].path = "items[0].name"
    /\ last.log[3].fn = "fnCtx"
    /\ last.log[2].call = "transformation"
    /\ last.err = PlainError("context canceled")
    /\ ReturnedError

-----------------------------------------------------------------------------
(* C29: when a rule of field k's own list fails or its function returns an *)
(* error, field k keeps its value of before the call, even if an earlier   *)
(* transformation of the same list succeeded, and the fields after k are   *)
(* untouched; the fields before k keep what their transformations wrote.   *)
Now == data.elem

(* what the call on field i alone leaves in the field *)
WrittenAlone(i) == AloneCall(i).value.elem.fields[1]

C29_PartialWriteBack ==
    (IsCall /\ ReturnedError) =>
        /\ FailingAlone # {}
        /\ \A i \in 1..Len(Root.fields) :
              Now.fields[i] = IF i < FirstFailing THEN WrittenAlone(i) ELSE Root.fields[i]

(* the second field failed on custom after its transformation returned a   *)
(* value: it holds what it held, the first holds its transformed value     *)
C29_Witness ==
    /\ IsCall /\ ReturnedError /\ FirstFailing = 2
    /\ \E j \in 1..Len(last.log) :
          /\ last.log[j].path = "b" /\ last.log[j].call = "transformation"
          /\ last.log[j].ret.err = NoErr /\ ~last.log[j].ret.isNil
          /\ last.log[j].ret.val # Root.fields[2].val
    /\ IsFieldError("failed-validation")
    /\ Now.fields[2] = Root.fields[2]
    /\ Now.fields[1] # Root.fields[1]
    /\ Now.fields[3] = Root.fields[3]

-----------------------------------------------------------------------------
(* C30: omission is decided before rule dispatch and beats required: an    *)
(* empty field with required and an applicable omission directive, not     *)
(* allow-listed, is left out and never fails on required, under any        *)
(* method; and no rule of a field nested in an omitted struct field,       *)
(* required included, is evaluated.                                        *)
RECURSIVE CarriesRequired(_)
CarriesRequired(f) ==
    \/ \E i \in 1..Len(TokensOf(f.tag)) : TokensOf(f.tag)[i] = "required"
    \/ /\ Effective(f.val).kind = "struct"
       /\ \E i \in 1..Len(Effective(f.val).fields) :
             CarriesRequired(Effective(f.val).fields[i])

OmittedRequired ==
    /\ IsCall
    /\ CarriesRequired(FirstField)
    /\ HasDirective(FirstField.tag, last.method)
    /\ ZeroEquivalent(FirstField.val)
    /\ ~AllowListed(ResolvedName(FirstField))

C30_OmissionFirst ==
    OmittedRequired =>
        /\ ReturnedDoc
        /\ last.out = DocOf(EmptyMap)
        /\ last.log = <<>>
        /\ data = last.before

(* a struct field with required and omitempty, holding a struct whose      *)
(* field is required and empty: the call under create returns the empty    *)
(* document and has invoked nothing                                        *)
C30_Witness ==
    /\ OmittedRequired
    /\ last.method = create /\ ~last.opts.skipValidation
    /\ FirstField.tag = T_InnerRequiredOmit
    /\ FirstField.val = Leaf(T_Required, S(""))
    /\ ReturnedDoc /\ last.log = <<>>

====
